---- MODULE Spec2Model ----
(***************************************************************************)
(* Model of the analysis pipeline of llm-brand-tracker:                    *)
(* BrandAnalyzer.runFullAnalysis (server/services/analyzer.ts), the        *)
(* process-wide progress record and running flag, stopCurrentAnalysis and  *)
(* the DatabaseStorage tables the orchestrator writes.                     *)
(*                                                                         *)
(* JavaScript runs one callback at a time: an async function executes      *)
(* without interruption from the point where an awaited promise resolves   *)
(* up to the next await.  Every action of a run below is one such segment: *)
(* the effect of the awaited call followed by the synchronous code up to   *)
(* the next await.  Other runs, start calls and stop calls interleave      *)
(* between the segments.                                                   *)
(***************************************************************************)
EXTENDS Integers, Sequences, FiniteSets, TLC

\* ---------------------------------------------------------------- bounds
\* accepted runFullAnalysis calls in one behaviour
MaxRuns == 2
\* prompts handed to the accepted calls of one behaviour, all calls together
MaxWork == 2
\* greatest count passed to generatePromptsForTopic
MaxCount == 3
\* fallback templates of generatePromptsForTopic that the model keeps
TemplatesKept == 2
\* greatest promptsPerTopic passed to generateDiversePrompts
MaxPerTopic == 2
\* fallback prompts of generateDiversePrompts that the model keeps
DiverseFallbacksKept == 2
\* greatest number of tokens of a text passed to extractUrlsFromText
MaxTokens == 3
\* storage calls that raise in one behaviour (SpecFault only)
MaxFaults == 1
\* URLs of the fixed fallback source list that the model keeps
FallbackKept == 2

Runs == 1..MaxRuns

\* ------------------------------------------------------- values of inputs
\* A URL is known by its hostname, its path, and the set of marker strings
\* ('/docs', '/api', ...) that occur in the URL string.
Url(h, p, inc) == [host |-> h, path |-> p, inc |-> inc]
U1 == Url("a.io", "/blog", {})
U2 == Url("a.io", "/docs/start", {"/docs"})
U3 == Url("b.org", "/", {})
U4 == Url("example.com", "/x", {})

\* A text is known by an identifier and by the URLs mentioned in it, in
\* the order extractUrlsFromText meets them.
Text(id, urls) == [id |-> id, urls |-> urls]
Q1 == Text("q1", <<>>)
Q2 == Text("q2", <<U3>>)

Null == "null"

PromptList(n) == [k \in 1..n |-> [text |-> IF k % 2 = 1 THEN Q1 ELSE Q2, topicId |-> Null]]
SavedPromptLists == {PromptList(n) : n \in 1..MaxWork}

\* the arguments of a runFullAnalysis call: saved prompts, or the stored
\* ones; savedGiven says that the argument savedPrompts is an array, and
\* savedPrompts is empty when it is not
StartInputs ==
  {[useExistingPrompts |-> FALSE, savedGiven |-> TRUE, savedPrompts |-> s] :
     s \in SavedPromptLists}
    \cup {[useExistingPrompts |-> TRUE, savedGiven |-> FALSE, savedPrompts |-> <<>>]}

\* the calls with no saved prompt: no array or an empty one
EmptyInputs ==
  {[useExistingPrompts |-> e, savedGiven |-> g, savedPrompts |-> <<>>] :
     e \in BOOLEAN, g \in BOOLEAN}

\* the prompts that the topic loop of a run generates: n prompts of a topic
GeneratedPrompts(n) ==
  [k \in 1..n |-> [text |-> IF k % 2 = 1 THEN Q1 ELSE Q2, topicId |-> "t1"]]

\* what the LLM adapter may answer for a prompt
AdapterResults ==
  { [response |-> Text("ra", <<U1>>), brandMentioned |-> TRUE,
     competitors |-> <<"X">>, sources |-> <<U1, U2>>],
    [response |-> Text("rb", <<>>), brandMentioned |-> FALSE,
     competitors |-> <<"Y", "Y">>, sources |-> <<U4, U3>>] }

\* what the fallback may draw: the random brand flag and the names that
\* extractCompetitorsFromText returns (no name twice, empty when it fails)
FallbackDraws ==
  { [brandMentioned |-> TRUE, extracted |-> <<>>],
    [brandMentioned |-> FALSE, extracted |-> <<"X">>] }

\* answers of the categorization call; "Technology" is also its fallback
Categories == {"Technology", "SaaS"}

NoAnalysis == [response |-> Text("", <<>>), brandMentioned |-> FALSE,
               competitors |-> <<>>, sources |-> <<>>]

\* ------------------------------------------------------------ pure helpers
RECURSIVE Dedupe(_)
Dedupe(s) ==
  IF s = <<>> THEN <<>>
  ELSE LET front == Dedupe(SubSeq(s, 1, Len(s) - 1))
           last == s[Len(s)]
       IN IF \E k \in 1..Len(front) : front[k] = last THEN front ELSE Append(front, last)

IsPlaceholderHost(h) == h = "example.com" \/ h = "localhost" \/ Len(h) < 3

extractUrlsFromText(text) ==
  Dedupe(SelectSeq(text.urls, LAMBDA u : ~IsPlaceholderHost(u.host)))

extractDomainFromUrl(u) == u.host

FallbackSourceList ==
  << Url("stackoverflow.com", "/questions/deployment", {}),
     Url("docs.aws.amazon.com", "", {"/docs"}),
     Url("github.com", "/features/actions", {}),
     Url("docs.github.com", "/en/actions", {"/docs"}),
     Url("vercel.com", "/docs", {"/docs"}),
     Url("netlify.com", "/docs", {"/docs"}),
     Url("docs.docker.com", "", {"/docs"}),
     Url("kubernetes.io", "/docs", {"/docs"}) >>

FallbackSources == SubSeq(FallbackSourceList, 1, FallbackKept)

\* the synthetic result substituted when analyzePromptResponse throws
FallbackAnalysis(promptText, brandMentioned, extracted) ==
  [response |-> Text("fallback", promptText.urls),
   brandMentioned |-> brandMentioned,
   competitors |-> Dedupe(extracted),
   sources |-> FallbackSources]

\* analyzer.ts 339-345
CollectUrls(analysis, promptText) ==
  Dedupe(extractUrlsFromText(analysis.response) \o analysis.sources
           \o extractUrlsFromText(promptText))

\* variant of GroupByDomain that opens an entry for every URL instead of
\* adding the URL to the entry of its domain
GroupByUrl(urls) ==
  LET kept == SelectSeq(urls, LAMBDA u : ~IsPlaceholderHost(extractDomainFromUrl(u)))
  IN [k \in 1..Len(kept) |-> [domain |-> extractDomainFromUrl(kept[k]), urls |-> <<kept[k]>>]]

\* analyzer.ts 350-369: Map from domain to its URLs, in insertion order
RECURSIVE GroupByDomain(_)
GroupByDomain(urls) ==
  IF urls = <<>> THEN <<>>
  ELSE LET front == GroupByDomain(SubSeq(urls, 1, Len(urls) - 1))
           u == urls[Len(urls)]
           d == extractDomainFromUrl(u)
       IN IF IsPlaceholderHost(d) THEN front
          ELSE IF \E k \in 1..Len(front) : front[k].domain = d
               THEN [k \in 1..Len(front) |->
                       IF front[k].domain = d
                       THEN [front[k] EXCEPT !.urls = Append(@, u)]
                       ELSE front[k]]
               ELSE Append(front, [domain |-> d, urls |-> <<u>>])

DocMarkers == {"/docs", "/api", "/developer", "/guide", "/tutorial"}

\* analyzer.ts 377-383
PrimaryUrl(urls) ==
  IF \E k \in 1..Len(urls) : urls[k].inc \cap DocMarkers # {}
  THEN urls[CHOOSE k \in 1..Len(urls) :
              /\ urls[k].inc \cap DocMarkers # {}
              /\ \A j \in 1..(k - 1) : urls[j].inc \cap DocMarkers = {}]
  ELSE urls[1]

\* the top-level domain of a host of the model
Tld(domain) ==
  CASE domain \in {"a.io", "docs.c.io", "kubernetes.io"} -> "io"
    [] domain = "b.org" -> "org"
    [] OTHER -> "com"

\* domain.includes(site) for the hosts of the model
DomainIncludes(domain, site) ==
  \/ domain = site
  \/ domain = "docs.github.com" /\ site = "github.com"

\* a title: a fixed label, or the first label of the domain (main names the
\* domain it is taken from) followed by a label
Title(main, label) == [main |-> main, label |-> label]

\* analyzer.ts 460-535; the fixed titles of the sites that no host of the
\* model includes (medium.com, dev.to, ...) are left out
generateSourceTitle(domain, url) ==
  IF "/docs" \in url.inc THEN Title(domain, "Documentation")
  ELSE IF "/api" \in url.inc THEN Title(domain, "API Documentation")
  ELSE IF "/developer" \in url.inc THEN Title(domain, "Developer Portal")
  ELSE IF "/guide" \in url.inc \/ "/tutorial" \in url.inc
       THEN Title(domain, "Guides & Tutorials")
  ELSE IF DomainIncludes(domain, "github.com") THEN Title("", "GitHub Repository")
  ELSE IF DomainIncludes(domain, "stackoverflow.com")
       THEN Title("", "Stack Overflow Discussion")
  ELSE IF Tld(domain) = "org" THEN Title(domain, "Organization")
  ELSE IF Tld(domain) = "io" THEN Title(domain, "Platform")
  ELSE Title(domain, "Website")

\* ------------------------------------------------------- progress record
Frac(n, d) == <<n, d>>
Msg(t, a) == [text |-> t, args |-> a]

InitialProgress ==
  [status |-> "initializing", message |-> Msg("Ready to start analysis...", <<>>),
   progress |-> Frac(0, 1), totalPrompts |-> 0, completedPrompts |-> 0]

ResetProgress ==
  [status |-> "initializing", message |-> Msg("Starting analysis...", <<>>),
   progress |-> Frac(0, 1), totalPrompts |-> 0, completedPrompts |-> 0]

CancelledProgress ==
  [status |-> "error", message |-> Msg("Analysis cancelled by user", <<>>),
   progress |-> Frac(0, 1), totalPrompts |-> 0, completedPrompts |-> 0]

\* updateProgress: currentProgress = { ...currentProgress, ...update }
UpdateProgress(cur, upd) ==
  [f \in DOMAIN cur |-> IF f \in DOMAIN upd THEN upd[f] ELSE cur[f]]

CancelUpdate ==
  [status |-> "error", message |-> Msg("Analysis cancelled by user", <<>>),
   progress |-> Frac(0, 1)]

\* variant of FailedUpdate whose message leaves the exception out
FailedUpdateNoMessage ==
  [status |-> "error", message |-> Msg("Analysis failed", <<>>),
   progress |-> Frac(0, 1)]

FailedUpdate ==
  [status |-> "error", message |-> Msg("Analysis failed: ", <<"error.message">>),
   progress |-> Frac(0, 1)]

\* variant of TestingUpdate whose progress lacks the division by the total
TestingUpdateNoDivision(completed, total) ==
  [status |-> "testing_prompts",
   message |-> Msg("Testing prompts with ChatGPT...", <<completed, total>>),
   progress |-> Frac(30 + 50 * completed, 1),
   totalPrompts |-> total, completedPrompts |-> completed]

TestingUpdate(completed, total) ==
  [status |-> "testing_prompts",
   message |-> Msg("Testing prompts with ChatGPT...", <<completed, total>>),
   progress |-> Frac(30 * total + 50 * completed, total),
   totalPrompts |-> total, completedPrompts |-> completed]

\* ------------------------------------------------------------------ state
VARIABLES
  isAnalysisRunning,   \* analyzer.ts: let isAnalysisRunning
  currentProgress,     \* analyzer.ts: let currentProgress
  pushed,              \* the record the progress callback received last, if any
  prompts,             \* table prompts: rows [id, text, topicId]
  promptSeq,           \* serial of prompts.id
  responses,           \* table responses
  competitors,         \* table competitors: rows [name, category, mentionCount]
  sources,             \* table sources: rows [domain, url, title, citationCount]
  analytics,           \* table analytics
  run,                 \* per accepted call: arguments, locals and position
  hist,                \* history of the behaviour (calls, first stop, last fault)
  faults,              \* storage calls that raised so far
  work,                \* prompts handed to the accepted calls so far
  lib                  \* the call of a function of openai.ts under way

vars == <<isAnalysisRunning, currentProgress, pushed, prompts, promptSeq, responses,
          competitors, sources, analytics, run, hist, faults, work, lib>>

storageVars == <<prompts, promptSeq, responses, competitors, sources, analytics>>

IdleRun ==
  [pc |-> "idle", useExistingPrompts |-> FALSE, savedGiven |-> FALSE,
   savedPrompts |-> <<>>,
   allPrompts |-> <<>>, i |-> 0, completedCount |-> 0, phase |-> 0,
   prompt |-> 0, analysis |-> NoAnalysis, ci |-> 0, category |-> Null,
   urlsByDomain |-> <<>>, di |-> 0,
   \* history of the run: adapter failures, iterations ended by the
   \* per-prompt catch, domains whose citation count this iteration raised
   fallbacks |-> 0, skipped |-> 0, cited |-> <<>>,
   \* history of the run: this iteration created or changed a Competitor or
   \* a Source
   touched |-> FALSE,
   \* generateAnalytics: the reads done and what they returned
   reads |-> 0, rs |-> <<>>, cs |-> <<>>, ss |-> <<>>,
   \* history of the run: the prompt sourcing branches it entered
   took |-> {}]

\* history of the behaviour: the runFullAnalysis calls made so far (0, 1,
\* or 2 for more than one), for the first stopCurrentAnalysis call made
\* while a run was active, where that run stood, and the kind of storage
\* call that raised last
NoStop == [seen |-> FALSE, run |-> 0, completed |-> 0, i |-> 0, inLoop |-> FALSE]
NoHist == [calls |-> 0, stopAt |-> NoStop, lastFault |-> "none"]

Min(a, b) == IF a < b THEN a ELSE b
LoopPcs == {"createPrompt", "analyze", "extractCompetitors", "getCompetitor", "categorize", "createCompetitor",
            "updateCompetitor", "getSource", "createSource", "updateSource", "createResponse"}

\* no function of openai.ts or prompt-generator.ts is being called
LibIdle ==
  [fn |-> "none", pc |-> "idle", count |-> 0, attempts |-> 0, prompts |-> <<>>,
   calls |-> 0, result |-> <<>>, attempt |-> 0, errors |-> <<>>, delays |-> <<>>,
   value |-> Null, threshold |-> 0, candidate |-> {}, text |-> <<>>,
   stored |-> Null, outcome |-> Null, items |-> <<>>,
   impl |-> Null, table |-> Null, row |-> [isNull |-> TRUE, n |-> 0]]

Init ==
  /\ isAnalysisRunning = FALSE
  /\ currentProgress = InitialProgress
  /\ pushed = <<>>
  /\ prompts = <<>>
  /\ promptSeq = 0
  /\ responses = <<>>
  /\ competitors = <<>>
  /\ sources = <<>>
  /\ analytics = <<>>
  /\ run = [r \in Runs |-> IdleRun]
  /\ hist = NoHist
  /\ faults = 0
  /\ work = 0
  /\ lib = LibIdle

EndPcs == {"complete", "cancelled", "failed"}
Active(r) == run[r].pc \notin ({"idle"} \cup EndPcs)

\* history: the number of runFullAnalysis calls accepted so far; rows of
\* prompts, responses and competitors carry it as the field epoch
Epoch == Cardinality({q \in Runs : run[q].pc # "idle"})

\* ------------------------------------------------ fragments of the run
SetRun(r, loc) == run' = [run EXCEPT ![r] = loc]

NoteCall == hist' = [hist EXCEPT !.calls = Min(@ + 1, 2)]

\* variant of RunFatal without the finally block: the flag stays set
RunFatalKeepsFlag(r, loc) ==
  /\ SetRun(r, [loc EXCEPT !.pc = "failed", !.reads = 0,
                           !.rs = <<>>, !.cs = <<>>, !.ss = <<>>])
  /\ currentProgress' = UpdateProgress(currentProgress, FailedUpdate)
  /\ UNCHANGED isAnalysisRunning
  /\ pushed' = <<currentProgress'>>

\* analyzer.ts 446-457: catch of runFullAnalysis, then finally
RunFatal(r, loc) ==
  /\ SetRun(r, [loc EXCEPT !.pc = "failed", !.reads = 0,
                           !.rs = <<>>, !.cs = <<>>, !.ss = <<>>])
  /\ currentProgress' = UpdateProgress(currentProgress, FailedUpdate)
  /\ isAnalysisRunning' = FALSE
  /\ pushed' = <<currentProgress'>>

\* variant of LoopHead whose cancellation branch publishes the error but
\* lacks the return: the iteration goes on
LoopHeadNoReturn(r, loc, prog) ==
  IF loc.i >= Len(loc.allPrompts)
  THEN /\ SetRun(r, [loc EXCEPT !.pc = "generateAnalytics"])
       /\ currentProgress' =
            UpdateProgress(prog, [status |-> "analyzing",
                                  message |-> Msg("Generating analytics...", <<>>),
                                  progress |-> Frac(85, 1)])
       /\ UNCHANGED isAnalysisRunning
       /\ pushed' = <<currentProgress'>>
  ELSE /\ SetRun(r, [loc EXCEPT !.pc = "createPrompt"])
       /\ currentProgress' = IF ~isAnalysisRunning THEN UpdateProgress(prog, CancelUpdate)
                                                   ELSE prog
       /\ UNCHANGED isAnalysisRunning
       /\ pushed' = <<currentProgress'>>

\* analyzer.ts 232-250 and 429-436: the loop condition, the cancellation
\* check and the call of createPrompt, or the start of finalization.
\* loc holds the locals and prog the progress record when the loop head is
\* reached.
LoopHead(r, loc, prog) ==
  IF loc.i >= Len(loc.allPrompts)
  THEN /\ SetRun(r, [loc EXCEPT !.pc = "generateAnalytics"])
       /\ currentProgress' =
            UpdateProgress(prog, [status |-> "analyzing",
                                  message |-> Msg("Generating analytics...", <<>>),
                                  progress |-> Frac(85, 1)])
       /\ UNCHANGED isAnalysisRunning
       /\ pushed' = <<currentProgress'>>
  ELSE IF ~isAnalysisRunning
       THEN /\ SetRun(r, [loc EXCEPT !.pc = "cancelled"])
            /\ currentProgress' = UpdateProgress(prog, CancelUpdate)
            /\ isAnalysisRunning' = FALSE
            /\ pushed' = <<currentProgress'>>
       ELSE /\ SetRun(r, [loc EXCEPT !.pc = "createPrompt"])
            /\ currentProgress' = prog
            /\ UNCHANGED isAnalysisRunning
            /\ pushed' = <<currentProgress'>>

\* analyzer.ts 218-227: entry of the loop with the assembled prompt list
BeginLoop(r, loc, prog, all) ==
  LoopHead(r, [loc EXCEPT !.allPrompts = all, !.i = 0, !.completedCount = 0, !.phase = 0],
           UpdateProgress(prog,
             [status |-> "testing_prompts",
              message |-> Msg("Testing prompts with ChatGPT...", <<>>),
              progress |-> Frac(30, 1),
              totalPrompts |-> Len(all), completedPrompts |-> 0]))

\* variant of EndPrompt whose loop counter is not advanced
EndPromptNoAdvance(r, loc, completed) ==
  LoopHead(r, [loc EXCEPT !.completedCount = completed, !.prompt = 0,
                          !.analysis = NoAnalysis, !.ci = 0, !.category = Null,
                          !.urlsByDomain = <<>>, !.di = 0, !.cited = <<>>,
                          !.touched = FALSE],
           UpdateProgress(currentProgress, TestingUpdate(completed, Len(loc.allPrompts))))

\* analyzer.ts 420-427: the progress update that ends an iteration, i++
EndPrompt(r, loc, completed) ==
  LoopHead(r, [loc EXCEPT !.i = @ + 1, !.completedCount = completed, !.prompt = 0,
                          !.analysis = NoAnalysis, !.ci = 0, !.category = Null,
                          !.urlsByDomain = <<>>, !.di = 0, !.cited = <<>>,
                          !.touched = FALSE],
           UpdateProgress(currentProgress, TestingUpdate(completed, Len(loc.allPrompts))))

\* analyzer.ts 339-385: URL collection and grouping, then the first lookup
BeginSources(loc) ==
  LET g == GroupByDomain(CollectUrls(loc.analysis, loc.allPrompts[loc.i + 1].text))
  IN IF g = <<>>
     THEN [loc EXCEPT !.pc = "createResponse", !.ci = 0, !.category = Null]
     ELSE [loc EXCEPT !.pc = "getSource", !.ci = 0, !.category = Null,
                      !.urlsByDomain = g, !.di = 1]

\* analyzer.ts 317-319: next competitor name of the result, or the sources
NextCompetitor(loc) ==
  IF loc.ci < Len(loc.analysis.competitors)
  THEN [loc EXCEPT !.pc = "getCompetitor", !.ci = @ + 1, !.category = Null]
  ELSE BeginSources(loc)

\* analyzer.ts 373-385 and 404-406: next domain, or the response record
NextSource(loc) ==
  IF loc.di < Len(loc.urlsByDomain)
  THEN [loc EXCEPT !.pc = "getSource", !.di = @ + 1]
  ELSE [loc EXCEPT !.pc = "createResponse"]

CompetitorExists(name) == \E k \in 1..Len(competitors) : competitors[k].name = name
SourceExists(domain) == \E k \in 1..Len(sources) : sources[k].domain = domain
PromptExists(id) == \E k \in 1..Len(prompts) : prompts[k].id = id

\* ------------------------------------------------------------- operations
\* variant of stopCurrentAnalysis that publishes the cancellation but leaves
\* the flag as it is
stopKeepsFlag ==
  /\ currentProgress' = CancelledProgress
  /\ hist' = IF ~hist.stopAt.seen /\ \E q \in Runs : Active(q)
              THEN LET q == CHOOSE q \in Runs : Active(q)
                   IN [hist EXCEPT !.stopAt = [seen |-> TRUE, run |-> q,
                                               completed |-> run[q].completedCount,
                                               i |-> run[q].i,
                                               inLoop |-> run[q].pc \in LoopPcs]]
              ELSE hist
  /\ UNCHANGED <<pushed, isAnalysisRunning, storageVars, run, faults, work, lib>>

\* analyzer.ts 36-45
stopCurrentAnalysis ==
  /\ isAnalysisRunning' = FALSE
  /\ currentProgress' = CancelledProgress
  /\ hist' = IF ~hist.stopAt.seen /\ \E q \in Runs : Active(q)
              THEN LET q == CHOOSE q \in Runs : Active(q)
                   IN [hist EXCEPT !.stopAt = [seen |-> TRUE, run |-> q,
                                               completed |-> run[q].completedCount,
                                               i |-> run[q].i,
                                               inLoop |-> run[q].pc \in LoopPcs]]
              ELSE hist
  /\ UNCHANGED <<pushed, storageVars, run, faults, work, lib>>

\* analyzer.ts 86-92 and 454-457: the call finds the flag set and returns
\* from inside the try block, so the finally block runs
StartRejected ==
  /\ isAnalysisRunning
  /\ isAnalysisRunning' = FALSE
  /\ NoteCall
  /\ UNCHANGED <<currentProgress, pushed, storageVars, run, faults, work, lib>>

\* analyzer.ts 86-113: admission, reset of the progress, first await
StartAccepted(r, in) ==
  /\ run[r].pc = "idle"
  /\ \A q \in Runs : q < r => run[q].pc # "idle"
  /\ ~isAnalysisRunning
  /\ work + Len(in.savedPrompts) <= MaxWork
  /\ work' = work + Len(in.savedPrompts)
  /\ isAnalysisRunning' = TRUE
  /\ currentProgress' =
       UpdateProgress(ResetProgress,
         [status |-> "initializing", message |-> Msg("Starting brand analysis...", <<>>),
          progress |-> Frac(0, 1)])
  /\ SetRun(r, [IdleRun EXCEPT !.pc = "resetDelay",
                               !.useExistingPrompts = in.useExistingPrompts,
                               !.savedGiven = in.savedGiven,
                               !.savedPrompts = in.savedPrompts])
  /\ NoteCall
  /\ pushed' = <<currentProgress'>>
  /\ UNCHANGED <<storageVars, faults, lib>>

\* an accepted call that arrives while no earlier accepted call is active
StartAcceptedAlone(r, in) ==
  /\ \A q \in Runs : ~Active(q)
  /\ StartAccepted(r, in)

\* analyzer.ts 113-176: after the reset delay, the prompt sourcing branch
AfterResetDelay(r) ==
  /\ run[r].pc = "resetDelay"
  /\ IF Len(run[r].savedPrompts) > 0
     THEN /\ SetRun(r, [run[r] EXCEPT !.pc = "clearPromptResponses", !.phase = 1])
          /\ currentProgress' =
               UpdateProgress(currentProgress,
                 [status |-> "initializing",
                  message |-> Msg("Clearing previous data and loading saved prompts...", <<>>),
                  progress |-> Frac(5, 1)])
     ELSE /\ run[r].useExistingPrompts
          /\ SetRun(r, [run[r] EXCEPT !.pc = "getPrompts", !.took = @ \cup {"existing"}])
          /\ currentProgress' =
               UpdateProgress(currentProgress,
                 [status |-> "testing_prompts",
                  message |-> Msg("Using existing prompts for analysis...", <<>>),
                  progress |-> Frac(20, 1)])
  /\ pushed' = <<currentProgress'>>
  /\ UNCHANGED <<isAnalysisRunning, storageVars, hist, faults, work, lib>>

\* database-storage clearAllPrompts, first statement: delete responses
ClearPromptResponses(r) ==
  /\ run[r].pc = "clearPromptResponses"
  /\ responses' = <<>>
  /\ SetRun(r, [run[r] EXCEPT !.pc = "clearPrompts"])
  /\ UNCHANGED <<isAnalysisRunning, currentProgress, pushed, prompts, promptSeq,
                 competitors, sources, analytics, hist, faults, work, lib>>

\* database-storage clearAllPrompts, second statement: delete prompts; the
\* foreign key responses.prompt_id rejects it while a response exists
ClearPrompts(r) ==
  /\ run[r].pc = "clearPrompts"
  /\ IF responses # <<>>
     THEN /\ RunFatal(r, run[r])
          /\ UNCHANGED prompts
     ELSE /\ prompts' = <<>>
          /\ SetRun(r, [run[r] EXCEPT !.pc = "clearResponses"])
          /\ UNCHANGED <<isAnalysisRunning, currentProgress, pushed>>
  /\ UNCHANGED <<promptSeq, responses, competitors, sources, analytics, hist, faults, work, lib>>

\* database-storage clearAllResponses
ClearResponses(r) ==
  /\ run[r].pc = "clearResponses"
  /\ responses' = <<>>
  /\ SetRun(r, [run[r] EXCEPT !.pc = "clearCompetitors"])
  /\ UNCHANGED <<isAnalysisRunning, currentProgress, pushed, prompts, promptSeq,
                 competitors, sources, analytics, hist, faults, work, lib>>

\* variant of ClearCompetitors whose delete is missing
ClearCompetitorsKeepsRows(r) ==
  /\ run[r].pc = "clearCompetitors"
  /\ IF run[r].phase = 1
     THEN /\ SetRun(r, [run[r] EXCEPT !.pc = "clearPromptResponses", !.phase = 2,
                                       !.took = @ \cup {"saved"}])
          /\ currentProgress' =
               UpdateProgress(currentProgress,
                 [status |-> "initializing",
                  message |-> Msg("Clearing previous data and loading saved prompts...", <<>>),
                  progress |-> Frac(10, 1)])
          /\ UNCHANGED isAnalysisRunning
          /\ pushed' = <<currentProgress'>>
     ELSE BeginLoop(r, run[r],
            UpdateProgress(currentProgress,
              [status |-> "testing_prompts",
               message |-> Msg("Processing saved prompts...", <<>>),
               progress |-> Frac(20, 1)]),
            [k \in 1..Len(run[r].savedPrompts) |->
               [text |-> run[r].savedPrompts[k].text,
                topicId |-> run[r].savedPrompts[k].topicId]])
  /\ UNCHANGED <<prompts, promptSeq, responses, competitors, sources, analytics, hist, faults, work, lib>>

\* database-storage clearAllCompetitors, then analyzer.ts 143-167 and 218-250
ClearCompetitors(r) ==
  /\ run[r].pc = "clearCompetitors"
  /\ competitors' = <<>>
  /\ IF run[r].phase = 1
     THEN /\ SetRun(r, [run[r] EXCEPT !.pc = "clearPromptResponses", !.phase = 2,
                                       !.took = @ \cup {"saved"}])
          /\ currentProgress' =
               UpdateProgress(currentProgress,
                 [status |-> "initializing",
                  message |-> Msg("Clearing previous data and loading saved prompts...", <<>>),
                  progress |-> Frac(10, 1)])
          /\ UNCHANGED isAnalysisRunning
          /\ pushed' = <<currentProgress'>>
     ELSE BeginLoop(r, run[r],
            UpdateProgress(currentProgress,
              [status |-> "testing_prompts",
               message |-> Msg("Processing saved prompts...", <<>>),
               progress |-> Frac(20, 1)]),
            [k \in 1..Len(run[r].savedPrompts) |->
               [text |-> run[r].savedPrompts[k].text,
                topicId |-> run[r].savedPrompts[k].topicId]])
  /\ UNCHANGED <<prompts, promptSeq, responses, sources, analytics, hist, faults, work, lib>>

\* analyzer.ts 176-177 and 218-250: the stored prompts become the list
GetPrompts(r) ==
  /\ run[r].pc = "getPrompts"
  /\ work + Len(prompts) <= MaxWork
  /\ work' = work + Len(prompts)
  /\ BeginLoop(r, run[r], currentProgress,
               [k \in 1..Len(prompts) |->
                  [text |-> prompts[k].text, topicId |-> prompts[k].topicId]])
  /\ UNCHANGED <<storageVars, hist, faults, lib>>

\* analyzer.ts 113-193: after the reset delay, no saved prompt and not the
\* stored ones: the run scrapes the website
AfterResetDelayScrape(r) ==
  /\ run[r].pc = "resetDelay"
  /\ Len(run[r].savedPrompts) = 0
  /\ ~run[r].useExistingPrompts
  /\ SetRun(r, [run[r] EXCEPT !.pc = "scrape", !.took = @ \cup {"generated"}])
  /\ currentProgress' =
       UpdateProgress(
         UpdateProgress(currentProgress,
           [status |-> "initializing",
            message |-> Msg("Preparing for new analysis...", <<>>),
            progress |-> Frac(5, 1)]),
         [status |-> "scraping", message |-> Msg("Analyzing brand website...", <<>>),
          progress |-> Frac(10, 1)])
  /\ pushed' = <<currentProgress'>>
  /\ UNCHANGED <<isAnalysisRunning, storageVars, hist, faults, work, lib>>

\* analyzer.ts 186-199: the content and the topics are there
ScrapeWebsite(r) ==
  /\ run[r].pc = "scrape"
  /\ SetRun(r, [run[r] EXCEPT !.pc = "generatePrompts"])
  /\ currentProgress' =
       UpdateProgress(currentProgress,
         [status |-> "generating_prompts",
          message |-> Msg("Generating test prompts...", <<>>),
          progress |-> Frac(20, 1)])
  /\ pushed' = <<currentProgress'>>
  /\ UNCHANGED <<isAnalysisRunning, storageVars, hist, faults, work, lib>>

\* analyzer.ts 196-250: the topic loop has generated n prompts (the topic
\* records are not part of the model); they become the list
GeneratePrompts(r, n) ==
  /\ run[r].pc = "generatePrompts"
  /\ work + n <= MaxWork
  /\ work' = work + n
  /\ BeginLoop(r, run[r], currentProgress, GeneratedPrompts(n))
  /\ UNCHANGED <<storageVars, hist, faults, lib>>

\* analyzer.ts 250-268: the prompt row is inserted; the rate-limit delay
\* and the adapter call follow
CreatePrompt(r) ==
  /\ run[r].pc = "createPrompt"
  /\ promptSeq' = promptSeq + 1
  /\ prompts' = Append(prompts, [id |-> promptSeq + 1,
                                 text |-> run[r].allPrompts[run[r].i + 1].text,
                                 topicId |-> run[r].allPrompts[run[r].i + 1].topicId,
                                 epoch |-> Epoch])
  /\ SetRun(r, [run[r] EXCEPT !.pc = "analyze", !.prompt = promptSeq + 1])
  /\ UNCHANGED <<isAnalysisRunning, currentProgress, pushed, responses, competitors,
                 sources, analytics, hist, faults, work, lib>>

\* analyzer.ts 268-269 and 313-319: analyzePromptResponse returns
AnalyzeSucceeds(r, res) ==
  /\ run[r].pc = "analyze"
  /\ SetRun(r, NextCompetitor([run[r] EXCEPT !.analysis = res, !.ci = 0]))
  /\ UNCHANGED <<isAnalysisRunning, currentProgress, pushed, storageVars, hist, faults, work, lib>>

\* variant of AnalyzeFails without the inner catch: the exception of the
\* adapter reaches the per-prompt catch and the iteration ends
AnalyzeFailsSkipsPrompt(r, brandMentioned, extracted) ==
  /\ run[r].pc = "analyze"
  /\ EndPrompt(r, [run[r] EXCEPT !.fallbacks = @ + 1], run[r].completedCount)
  /\ UNCHANGED <<storageVars, hist, faults, work, lib>>

\* analyzer.ts 270-319: analyzePromptResponse throws, the synthetic result
\* is built from a random brand flag and the extracted competitors
AnalyzeFails(r, brandMentioned, extracted) ==
  /\ run[r].pc = "analyze"
  /\ SetRun(r, NextCompetitor(
                 [run[r] EXCEPT !.analysis =
                    FallbackAnalysis(run[r].allPrompts[run[r].i + 1].text,
                                     brandMentioned, extracted),
                                !.ci = 0, !.fallbacks = @ + 1]))
  /\ UNCHANGED <<isAnalysisRunning, currentProgress, pushed, storageVars, hist, faults, work, lib>>

\* analyzer.ts 270-281: analyzePromptResponse throws (each of its adapter
\* calls is cut off after 30 s) and the fallback calls
\* extractCompetitorsFromText, whose adapter call has no timeout
AnalyzeThrows(r) ==
  /\ run[r].pc = "analyze"
  /\ SetRun(r, [run[r] EXCEPT !.pc = "extractCompetitors"])
  /\ UNCHANGED <<isAnalysisRunning, currentProgress, pushed, storageVars, hist, faults, work, lib>>

\* analyzer.ts 281-319: extractCompetitorsFromText returns, the synthetic
\* result is built
ExtractCompetitorsReturns(r, brandMentioned, extracted) ==
  /\ run[r].pc = "extractCompetitors"
  /\ SetRun(r, NextCompetitor(
                 [run[r] EXCEPT !.analysis =
                    FallbackAnalysis(run[r].allPrompts[run[r].i + 1].text,
                                     brandMentioned, extracted),
                                !.ci = 0, !.fallbacks = @ + 1]))
  /\ UNCHANGED <<isAnalysisRunning, currentProgress, pushed, storageVars, hist, faults, work, lib>>

CurrentCompetitor(r) == run[r].analysis.competitors[run[r].ci]
CurrentDomain(r) == run[r].urlsByDomain[run[r].di]

\* analyzer.ts 319-330: getCompetitorByName returns
GetCompetitor(r) ==
  /\ run[r].pc = "getCompetitor"
  /\ SetRun(r, [run[r] EXCEPT !.pc = IF CompetitorExists(CurrentCompetitor(r))
                                     THEN "updateCompetitor" ELSE "categorize"])
  /\ UNCHANGED <<isAnalysisRunning, currentProgress, pushed, storageVars, hist, faults, work, lib>>

\* analyzer.ts 537-591: categorizeCompetitor reuses a stored category or
\* takes the answer of the categorization call ("Technology" when it fails)
categorizeCompetitor(r, answer) ==
  /\ run[r].pc = "categorize"
  /\ LET stored == {k \in 1..Len(competitors) :
                      /\ competitors[k].name = CurrentCompetitor(r)
                      /\ competitors[k].category # Null}
     IN IF stored # {}
        THEN /\ answer = "Technology"
             /\ SetRun(r, [run[r] EXCEPT !.pc = "createCompetitor",
                             !.category = competitors[CHOOSE k \in stored : TRUE].category])
        ELSE SetRun(r, [run[r] EXCEPT !.pc = "createCompetitor", !.category = answer])
  /\ UNCHANGED <<isAnalysisRunning, currentProgress, pushed, storageVars, hist, faults, work, lib>>

\* analyzer.ts 324-333 and schema.ts 31: the insert; competitors.name is
\* unique, a second row of the name is rejected and the per-competitor
\* catch goes on with the next name
CreateCompetitor(r) ==
  /\ run[r].pc = "createCompetitor"
  /\ IF CompetitorExists(CurrentCompetitor(r))
     THEN /\ SetRun(r, NextCompetitor(run[r]))
          /\ UNCHANGED competitors
     ELSE /\ competitors' = Append(competitors,
                                   [name |-> CurrentCompetitor(r),
                                    category |-> run[r].category,
                                    mentionCount |-> 0,
                                    epoch |-> Epoch])
          /\ SetRun(r, [run[r] EXCEPT !.pc = "updateCompetitor", !.touched = TRUE])
  /\ UNCHANGED <<isAnalysisRunning, currentProgress, pushed, prompts, promptSeq,
                 responses, sources, analytics, hist, faults, work, lib>>

\* database-storage updateCompetitorMentionCount: every row of the name
UpdateCompetitor(r) ==
  /\ run[r].pc = "updateCompetitor"
  /\ competitors' = [k \in 1..Len(competitors) |->
                       IF competitors[k].name = CurrentCompetitor(r)
                       THEN [competitors[k] EXCEPT !.mentionCount = @ + 1]
                       ELSE competitors[k]]
  /\ SetRun(r, NextCompetitor([run[r] EXCEPT
                                 !.touched = @ \/ CompetitorExists(CurrentCompetitor(r))]))
  /\ UNCHANGED <<isAnalysisRunning, currentProgress, pushed, prompts, promptSeq,
                 responses, sources, analytics, hist, faults, work, lib>>

\* analyzer.ts 385-398: getSourceByDomain returns
GetSource(r) ==
  /\ run[r].pc = "getSource"
  /\ SetRun(r, [run[r] EXCEPT !.pc = IF SourceExists(CurrentDomain(r).domain)
                                     THEN "updateSource" ELSE "createSource"])
  /\ UNCHANGED <<isAnalysisRunning, currentProgress, pushed, storageVars, hist, faults, work, lib>>

\* analyzer.ts 386-396 and database-storage createSource: sources.domain
\* carries no constraint
CreateSource(r) ==
  /\ run[r].pc = "createSource"
  /\ sources' = Append(sources, [domain |-> CurrentDomain(r).domain,
                                 url |-> PrimaryUrl(CurrentDomain(r).urls),
                                 title |-> generateSourceTitle(CurrentDomain(r).domain,
                                             PrimaryUrl(CurrentDomain(r).urls)),
                                 citationCount |-> 0])
  /\ SetRun(r, [run[r] EXCEPT !.pc = "updateSource", !.touched = TRUE])
  /\ UNCHANGED <<isAnalysisRunning, currentProgress, pushed, prompts, promptSeq,
                 responses, competitors, analytics, hist, faults, work, lib>>

\* variant of UpdateSource that also stores the representative URL and the
\* title of the prompt at hand
UpdateSourceRefreshes(r) ==
  /\ run[r].pc = "updateSource"
  /\ sources' = [k \in 1..Len(sources) |->
                   IF sources[k].domain = CurrentDomain(r).domain
                   THEN [sources[k] EXCEPT
                           !.citationCount = @ + 1,
                           !.url = PrimaryUrl(CurrentDomain(r).urls),
                           !.title = generateSourceTitle(CurrentDomain(r).domain,
                                       PrimaryUrl(CurrentDomain(r).urls))]
                   ELSE sources[k]]
  /\ SetRun(r, NextSource([run[r] EXCEPT
                             !.cited = Append(@, CurrentDomain(r).domain),
                             !.touched = @ \/ SourceExists(CurrentDomain(r).domain)]))
  /\ UNCHANGED <<isAnalysisRunning, currentProgress, pushed, prompts, promptSeq,
                 responses, competitors, analytics, hist, faults, work, lib>>

\* database-storage updateSourceCitationCount: every row of the domain
UpdateSource(r) ==
  /\ run[r].pc = "updateSource"
  /\ sources' = [k \in 1..Len(sources) |->
                   IF sources[k].domain = CurrentDomain(r).domain
                   THEN [sources[k] EXCEPT !.citationCount = @ + 1]
                   ELSE sources[k]]
  /\ SetRun(r, NextSource([run[r] EXCEPT
                             !.cited = Append(@, CurrentDomain(r).domain),
                             !.touched = @ \/ SourceExists(CurrentDomain(r).domain)]))
  /\ UNCHANGED <<isAnalysisRunning, currentProgress, pushed, prompts, promptSeq,
                 responses, competitors, analytics, hist, faults, work, lib>>

\* analyzer.ts 406-427 and schema.ts 21: the response row is inserted (the
\* foreign key rejects it when the prompt row is gone, which the per-prompt
\* catch swallows), then the iteration ends.  The fields run, epoch and pos
\* of a row are history: the accepted call that persisted it, the calls
\* accepted by then, and the position of its prompt in the list of the run.
CreateResponse(r) ==
  /\ run[r].pc = "createResponse"
  /\ IF PromptExists(run[r].prompt)
     THEN /\ responses' = Append(responses,
                                 [promptId |-> run[r].prompt,
                                  text |-> run[r].analysis.response,
                                  brandMentioned |-> run[r].analysis.brandMentioned,
                                  competitorsMentioned |-> run[r].analysis.competitors,
                                  sources |-> run[r].analysis.sources,
                                  run |-> r, epoch |-> Epoch, pos |-> run[r].i + 1])
          /\ EndPrompt(r, run[r], run[r].completedCount + 1)
     ELSE /\ UNCHANGED responses
          /\ EndPrompt(r, [run[r] EXCEPT !.skipped = @ + 1], run[r].completedCount)
  /\ UNCHANGED <<prompts, promptSeq, competitors, sources, analytics, hist, faults, work, lib>>

\* analyzer.ts 601-602: the first competitor of the greatest mentionCount
TopCompetitor(cs) ==
  IF cs = <<>> THEN Null
  ELSE cs[CHOOSE k \in 1..Len(cs) :
            /\ \A j \in 1..Len(cs) : cs[j].mentionCount <= cs[k].mentionCount
            /\ \A j \in 1..(k - 1) : cs[j].mentionCount < cs[k].mentionCount].name

\* analyzer.ts 593-613
AnalyticsOf(rs, cs, ss) ==
  LET mentions == Cardinality({k \in 1..Len(rs) : rs[k].brandMentioned})
  IN [totalPrompts |-> Len(rs),
      brandMentionRate |-> IF Len(rs) > 0 THEN Frac(mentions * 100, Len(rs)) ELSE Frac(0, 1),
      topCompetitor |-> TopCompetitor(cs),
      totalSources |-> Len(ss),
      totalDomains |-> Cardinality({ss[k].domain : k \in 1..Len(ss)})]

\* variant of generateAnalytics that publishes complete without the insert
generateAnalyticsNoInsert(r) ==
  /\ run[r].pc = "generateAnalytics"
  /\ currentProgress' =
       UpdateProgress(currentProgress,
         [status |-> "complete", message |-> Msg("Analysis complete!", <<>>),
          progress |-> Frac(100, 1)])
  /\ isAnalysisRunning' = FALSE
  /\ SetRun(r, [run[r] EXCEPT !.pc = "complete"])
  /\ pushed' = <<currentProgress'>>
  /\ UNCHANGED <<storageVars, hist, faults, work, lib>>

\* analyzer.ts 436-457: the rollup is persisted, complete is published and
\* the finally block clears the flag; the three reads of the rollup and
\* its insert are taken as one step.  The field run of a row is history.
generateAnalytics(r) ==
  /\ run[r].pc = "generateAnalytics"
  /\ run[r].reads = 0
  /\ analytics' = Append(analytics,
                         [data |-> AnalyticsOf(responses, competitors, sources), run |-> r])
  /\ currentProgress' =
       UpdateProgress(currentProgress,
         [status |-> "complete", message |-> Msg("Analysis complete!", <<>>),
          progress |-> Frac(100, 1)])
  /\ isAnalysisRunning' = FALSE
  /\ SetRun(r, [run[r] EXCEPT !.pc = "complete"])
  /\ pushed' = <<currentProgress'>>
  /\ UNCHANGED <<prompts, promptSeq, responses, competitors, sources, hist, faults, work, lib>>

\* analyzer.ts 594: generateAnalytics reads the responses
GetResponsesWithPrompts(r) ==
  /\ run[r].pc = "generateAnalytics"
  /\ run[r].reads = 0
  /\ SetRun(r, [run[r] EXCEPT !.reads = 1, !.rs = responses])
  /\ UNCHANGED <<isAnalysisRunning, currentProgress, pushed, storageVars, hist, faults, work, lib>>

\* analyzer.ts 595: generateAnalytics reads the competitors
GetCompetitors(r) ==
  /\ run[r].pc = "generateAnalytics"
  /\ run[r].reads = 1
  /\ SetRun(r, [run[r] EXCEPT !.reads = 2, !.cs = competitors])
  /\ UNCHANGED <<isAnalysisRunning, currentProgress, pushed, storageVars, hist, faults, work, lib>>

\* analyzer.ts 596: generateAnalytics reads the sources
GetSources(r) ==
  /\ run[r].pc = "generateAnalytics"
  /\ run[r].reads = 2
  /\ SetRun(r, [run[r] EXCEPT !.reads = 3, !.ss = sources])
  /\ UNCHANGED <<isAnalysisRunning, currentProgress, pushed, storageVars, hist, faults, work, lib>>

\* analyzer.ts 598-612 and 438-457: the rollup of what the three reads
\* returned is persisted, complete is published and the finally block
\* clears the flag
CreateAnalytics(r) ==
  /\ run[r].pc = "generateAnalytics"
  /\ run[r].reads = 3
  /\ analytics' = Append(analytics,
                         [data |-> AnalyticsOf(run[r].rs, run[r].cs, run[r].ss), run |-> r])
  /\ currentProgress' =
       UpdateProgress(currentProgress,
         [status |-> "complete", message |-> Msg("Analysis complete!", <<>>),
          progress |-> Frac(100, 1)])
  /\ isAnalysisRunning' = FALSE
  /\ SetRun(r, [run[r] EXCEPT !.pc = "complete", !.reads = 0,
                              !.rs = <<>>, !.cs = <<>>, !.ss = <<>>])
  /\ pushed' = <<currentProgress'>>
  /\ UNCHANGED <<prompts, promptSeq, responses, competitors, sources, hist, faults, work, lib>>

\* ------------------------------------------------- storage calls that raise
\* analyzer.ts 250 and 416-427: createPrompt raises, the per-prompt catch
\* logs it and the iteration ends
CreatePromptFails(r) ==
  /\ run[r].pc = "createPrompt"
  /\ faults < MaxFaults
  /\ faults' = faults + 1
  /\ hist' = [hist EXCEPT !.lastFault = "prompt"]
  /\ EndPrompt(r, [run[r] EXCEPT !.skipped = @ + 1], run[r].completedCount)
  /\ UNCHANGED <<storageVars, work, lib>>

\* variant of CreateResponseFails that counts the prompt as completed
CreateResponseFailsCounted(r) ==
  /\ run[r].pc = "createResponse"
  /\ faults < MaxFaults
  /\ faults' = faults + 1
  /\ hist' = [hist EXCEPT !.lastFault = "response"]
  /\ EndPrompt(r, [run[r] EXCEPT !.skipped = @ + 1], run[r].completedCount + 1)
  /\ UNCHANGED <<storageVars, work, lib>>

\* analyzer.ts 406-427: createResponse raises
CreateResponseFails(r) ==
  /\ run[r].pc = "createResponse"
  /\ faults < MaxFaults
  /\ faults' = faults + 1
  /\ hist' = [hist EXCEPT !.lastFault = "response"]
  /\ EndPrompt(r, [run[r] EXCEPT !.skipped = @ + 1], run[r].completedCount)
  /\ UNCHANGED <<storageVars, work, lib>>

\* variant of CompetitorCallFails without the per-competitor catch: the
\* exception reaches the per-prompt catch and the iteration ends
CompetitorCallSkipsPrompt(r) ==
  /\ run[r].pc \in {"getCompetitor", "categorize", "createCompetitor", "updateCompetitor"}
  /\ faults < MaxFaults
  /\ faults' = faults + 1
  /\ hist' = [hist EXCEPT !.lastFault = "competitor"]
  /\ EndPrompt(r, [run[r] EXCEPT !.skipped = @ + 1], run[r].completedCount)
  /\ UNCHANGED <<storageVars, work, lib>>

\* analyzer.ts 318-334: a storage call of the competitor loop raises and
\* the per-competitor catch goes on with the next name
CompetitorCallFails(r) ==
  /\ run[r].pc \in {"getCompetitor", "categorize", "createCompetitor", "updateCompetitor"}
  /\ faults < MaxFaults
  /\ faults' = faults + 1
  /\ hist' = [hist EXCEPT !.lastFault = "competitor"]
  /\ SetRun(r, NextCompetitor(run[r]))
  /\ UNCHANGED <<isAnalysisRunning, currentProgress, pushed, storageVars, work, lib>>

\* analyzer.ts 373-402: a storage call of the domain loop raises and the
\* per-domain catch goes on with the next domain
SourceCallFails(r) ==
  /\ run[r].pc \in {"getSource", "createSource", "updateSource"}
  /\ faults < MaxFaults
  /\ faults' = faults + 1
  /\ hist' = [hist EXCEPT !.lastFault = "source"]
  /\ SetRun(r, NextSource(run[r]))
  /\ UNCHANGED <<isAnalysisRunning, currentProgress, pushed, storageVars, work, lib>>

\* analyzer.ts 446-457: a storage call outside the per-prompt try raises
RunFatalCallFails(r) ==
  /\ run[r].pc \in {"clearPromptResponses", "clearPrompts", "clearResponses",
                    "clearCompetitors", "getPrompts", "generateAnalytics"}
  /\ faults < MaxFaults
  /\ faults' = faults + 1
  /\ hist' = [hist EXCEPT !.lastFault = "fatal"]
  /\ RunFatal(r, run[r])
  /\ UNCHANGED <<storageVars, work, lib>>

\* --------------------------------------------------------- specifications
\* one segment of the accepted call r before generateAnalytics
PromptStep(r) ==
  \/ AfterResetDelay(r)
  \/ ClearPromptResponses(r)
  \/ ClearPrompts(r)
  \/ ClearResponses(r)
  \/ ClearCompetitors(r)
  \/ GetPrompts(r)
  \/ CreatePrompt(r)
  \/ \E res \in AdapterResults : AnalyzeSucceeds(r, res)
  \/ \E draw \in FallbackDraws : AnalyzeFails(r, draw.brandMentioned, draw.extracted)
  \/ GetCompetitor(r)
  \/ \E answer \in Categories : categorizeCompetitor(r, answer)
  \/ CreateCompetitor(r)
  \/ UpdateCompetitor(r)
  \/ GetSource(r)
  \/ CreateSource(r)
  \/ UpdateSource(r)
  \/ CreateResponse(r)

\* one segment of the accepted call r, the reads of generateAnalytics and
\* its insert being one step
RunStep(r) == PromptStep(r) \/ generateAnalytics(r)

\* one segment of generateAnalytics in the accepted call r
RollupStep(r) ==
  \/ GetResponsesWithPrompts(r)
  \/ GetCompetitors(r)
  \/ GetSources(r)
  \/ CreateAnalytics(r)

\* one storage call of the accepted call r raises
FaultStep(r) ==
  \/ CreatePromptFails(r)
  \/ CreateResponseFails(r)
  \/ CompetitorCallFails(r)
  \/ SourceCallFails(r)
  \/ RunFatalCallFails(r)

\* Calls of runFullAnalysis and stopCurrentAnalysis arrive at any time, the
\* storage calls return normally.
Next ==
  \/ stopCurrentAnalysis
  \/ StartRejected
  \/ \E r \in Runs, in \in StartInputs : StartAccepted(r, in)
  \/ \E r \in Runs : RunStep(r)

Spec == Init /\ [][Next]_vars

\* Storage calls may raise; a call that is accepted arrives while no
\* earlier accepted call is still active.
NextFault ==
  \/ stopCurrentAnalysis
  \/ StartRejected
  \/ \E r \in Runs, in \in StartInputs : StartAcceptedAlone(r, in)
  \/ \E r \in Runs : RunStep(r)
  \/ \E r \in Runs : FaultStep(r)

SpecFault == Init /\ [][NextFault]_vars

\* one segment of the accepted call r on the branch that generates prompts
GenerateStep(r) ==
  \/ AfterResetDelayScrape(r)
  \/ ScrapeWebsite(r)
  \/ \E n \in 1..MaxWork : GeneratePrompts(r, n)

\* Every kind of call: a call that is accepted arrives while no earlier
\* accepted call is still active, the storage calls return normally.
NextSeq ==
  \/ stopCurrentAnalysis
  \/ StartRejected
  \/ \E r \in Runs, in \in StartInputs \cup EmptyInputs : StartAcceptedAlone(r, in)
  \/ \E r \in Runs : RunStep(r)
  \/ \E r \in Runs : GenerateStep(r)

SpecSeq == Init /\ [][NextSeq]_vars

\* further answers of the adapter: one cites two pages of a documentation
\* host (the text of such a URL holds "//docs", hence "/docs", before any
\* path), one cites only the page of a.io without a marker
FurtherResults ==
  { [response |-> Text("rc", <<>>), brandMentioned |-> FALSE, competitors |-> <<>>,
     sources |-> <<Url("docs.c.io", "/blog", {"/docs"}),
                   Url("docs.c.io", "/api/v1", {"/docs", "/api"})>>],
    [response |-> Text("rd", <<U1>>), brandMentioned |-> FALSE, competitors |-> <<>>,
     sources |-> <<>>] }

\* Every kind of call of NextSeq, the adapter also giving the further
\* answers.
NextSrc ==
  \/ NextSeq
  \/ \E r \in Runs, res \in FurtherResults : AnalyzeSucceeds(r, res)

SpecSrc == Init /\ [][NextSrc]_vars

\* the calls with one saved prompt at most
RollupInputs == {in \in StartInputs : Len(in.savedPrompts) <= 1}

\* Calls may overlap as in Next; generateAnalytics is taken read by read.
NextRollup ==
  \/ StartRejected
  \/ \E r \in Runs, in \in RollupInputs : StartAccepted(r, in)
  \/ \E r \in Runs : PromptStep(r)
  \/ \E r \in Runs : RollupStep(r)

SpecRollup == Init /\ [][NextRollup]_vars

\* the adapter calls that no timeout cuts off: they answer, if they answer
\* at all, after any time
UntimedStep(r) ==
  \/ AnalyzeThrows(r)
  \/ \E draw \in FallbackDraws :
       ExtractCompetitorsReturns(r, draw.brandMentioned, draw.extracted)

NextLive == NextSeq \/ \E r \in Runs : UntimedStep(r)

\* The timers fire and the storage calls return: every segment that waits
\* for a timer, for a storage call or for an adapter call with a timeout
\* is taken. The adapter calls without a timeout (extractCompetitorsFromText
\* and the calls of generatePromptsForTopic) may never answer.
SpecLive ==
  /\ Init
  /\ [][NextLive]_vars
  /\ \A r \in Runs : WF_vars(RunStep(r))
  /\ \A r \in Runs : WF_vars(AfterResetDelayScrape(r) \/ ScrapeWebsite(r))

\* stopCurrentAnalysis is called only while no accepted call is active, and
\* every accepted call arrives right after such a request: the request
\* assigns the cancellation record without passing it to the callback, and
\* every run ends with an update that it passes on
StopWhileIdle ==
  /\ \A q \in Runs : ~Active(q)
  /\ stopCurrentAnalysis

StoppedWhileIdle ==
  /\ \A q \in Runs : ~Active(q)
  /\ currentProgress = CancelledProgress
  /\ pushed # <<currentProgress>>

StartAfterStop(r, in) ==
  /\ StoppedWhileIdle
  /\ StartAccepted(r, in)

NextAfterStop ==
  \/ StopWhileIdle
  \/ StartRejected
  \/ \E r \in Runs, in \in StartInputs \cup EmptyInputs : StartAfterStop(r, in)
  \/ \E r \in Runs : RunStep(r)
  \/ \E r \in Runs : GenerateStep(r)
  \/ \E r \in Runs : UntimedStep(r)

\* the same timers and storage calls as in SpecLive
SpecAfterStop ==
  /\ Init
  /\ [][NextAfterStop]_vars
  /\ \A r \in Runs : WF_vars(RunStep(r))
  /\ \A r \in Runs : WF_vars(AfterResetDelayScrape(r) \/ ScrapeWebsite(r))

\* ------------------------------------------------ functions of openai.ts
\* openai.ts 211: maxAttempts = count * 5
AttemptsPerPrompt == 5
\* openai.ts 16: maxRetries = 3
MaxRetries == 3

\* texts: what the adapter answers (after the clean-up), a fallback
\* template of the topic, a numbered variation
LlmText(n) == [kind |-> "llm", n |-> n]
Template(n) == [kind |-> "template", n |-> n]
Numbered(n) == [kind |-> "numbered", n |-> n]

\* answers of the adapter that pass the validation of openai.ts 301; the
\* last one is the text of the first fallback template
ValidAnswers == {LlmText(1), LlmText(2), Template(1)}

\* openai.ts 314-335
FallbackTemplates == [k \in 1..TemplatesKept |-> Template(k)]

\* openai.ts 337-344: the templates not yet present, up to count prompts
RECURSIVE FillFromTemplates(_, _, _)
FillFromTemplates(ps, count, k) ==
  IF k > Len(FallbackTemplates) \/ Len(ps) >= count THEN ps
  ELSE FillFromTemplates(
         IF \E j \in 1..Len(ps) : ps[j] = FallbackTemplates[k]
         THEN ps ELSE Append(ps, FallbackTemplates[k]),
         count, k + 1)

\* variant of FillNumbered that adds nothing
FillNothing(ps, count) == ps

\* openai.ts 346-352: numbered variations up to count prompts
FillNumbered(ps, count) ==
  IF Len(ps) >= count THEN ps
  ELSE ps \o [k \in 1..(count - Len(ps)) |-> Numbered(Len(ps) + k)]

\* openai.ts 312-357: the fallback and the final slice
FinishPrompts(ps, count) ==
  LET filled == IF Len(ps) < count
                THEN FillNumbered(FillFromTemplates(ps, count, 1), count)
                ELSE ps
  IN SubSeq(filled, 1, Min(count, Len(filled)))

\* openai.ts 183-211: generatePromptsForTopic is called
GenStart(count) ==
  /\ lib.pc = "idle"
  /\ lib' = [LibIdle EXCEPT !.fn = "generate", !.pc = "loop", !.count = count]
  /\ UNCHANGED <<isAnalysisRunning, currentProgress, pushed, storageVars, run, hist, faults, work>>

\* openai.ts 213: the loop condition
GenLoops == Len(lib.prompts) < lib.count /\ lib.attempts < lib.count * AttemptsPerPrompt

\* openai.ts 213-303: one iteration, the answer passes the validation
GenCallAccepts(text) ==
  /\ lib.fn = "generate"
  /\ lib.pc = "loop"
  /\ GenLoops
  /\ lib' = [lib EXCEPT !.attempts = @ + 1, !.calls = @ + 1, !.prompts = Append(@, text)]
  /\ UNCHANGED <<isAnalysisRunning, currentProgress, pushed, storageVars, run, hist, faults, work>>

\* openai.ts 213-303: one iteration, the answer is empty or fails the validation
GenCallRejects ==
  /\ lib.fn = "generate"
  /\ lib.pc = "loop"
  /\ GenLoops
  /\ lib' = [lib EXCEPT !.attempts = @ + 1, !.calls = @ + 1]
  /\ UNCHANGED <<isAnalysisRunning, currentProgress, pushed, storageVars, run, hist, faults, work>>

\* openai.ts 213-308: one iteration, the adapter call throws
GenCallThrows ==
  /\ lib.fn = "generate"
  /\ lib.pc = "loop"
  /\ GenLoops
  /\ lib' = [lib EXCEPT !.attempts = @ + 1, !.calls = @ + 1, !.errors = Append(@, "error")]
  /\ UNCHANGED <<isAnalysisRunning, currentProgress, pushed, storageVars, run, hist, faults, work>>

\* openai.ts 311-357: the loop is over, fallback prompts and return
GenReturn ==
  /\ lib.fn = "generate"
  /\ lib.pc = "loop"
  /\ ~GenLoops
  /\ lib' = [lib EXCEPT !.pc = "returned", !.result = FinishPrompts(lib.prompts, lib.count)]
  /\ UNCHANGED <<isAnalysisRunning, currentProgress, pushed, storageVars, run, hist, faults, work>>

RECURSIVE Pow2(_)
Pow2(n) == IF n = 0 THEN 1 ELSE 2 * Pow2(n - 1)

\* variant of BackoffDelay with a constant delay
BackoffConstant(attempt) == 2000

\* openai.ts 32: Math.pow(2, attempt) * 1000
BackoffDelay(attempt) == Pow2(attempt) * 1000

\* errors an attempt may raise; the race with the 30 s timer raises "timeout"
ApiErrors == {"e1", "e2", "e3"}
ApiValues == {"v1", "v2"}

\* openai.ts 16-17: callOpenAIWithRetry is called, first attempt
RetryStart ==
  /\ lib.pc = "idle"
  /\ lib' = [LibIdle EXCEPT !.fn = "retry", !.pc = "attempt", !.attempt = 1]
  /\ UNCHANGED <<isAnalysisRunning, currentProgress, pushed, storageVars, run, hist, faults, work>>

\* openai.ts 23: the call answers within 30 s, its result is returned
AttemptSucceeds(v) ==
  /\ lib.pc = "attempt"
  /\ lib' = [lib EXCEPT !.pc = "returned", !.calls = @ + 1, !.value = v]
  /\ UNCHANGED <<isAnalysisRunning, currentProgress, pushed, storageVars, run, hist, faults, work>>

\* openai.ts 24-35: the attempt has failed with error e: rethrow after the
\* last attempt, else wait and try again
AttemptFailed(e) ==
  IF lib.attempt = MaxRetries
  THEN lib' = [lib EXCEPT !.pc = "raised", !.calls = @ + 1, !.value = e,
                          !.errors = Append(@, e)]
  ELSE lib' = [lib EXCEPT !.calls = @ + 1, !.errors = Append(@, e),
                          !.delays = Append(@, BackoffDelay(lib.attempt)),
                          !.attempt = @ + 1]

\* openai.ts 23-24: the call rejects within 30 s
AttemptFails(e) ==
  /\ lib.pc = "attempt"
  /\ AttemptFailed(e)
  /\ UNCHANGED <<isAnalysisRunning, currentProgress, pushed, storageVars, run, hist, faults, work>>

\* openai.ts 19-24: the call has not settled after 30 s, the timer rejects
AttemptTimesOut ==
  /\ lib.pc = "attempt"
  /\ AttemptFailed("timeout")
  /\ UNCHANGED <<isAnalysisRunning, currentProgress, pushed, storageVars, run, hist, faults, work>>

\* --------------------------------------- functions of prompt-generator.ts
\* prompt-generator.ts 12: maxAttempts = promptsPerTopic * 3
AttemptsPerDiversePrompt == 3

\* whitespace-separated tokens a text may hold; a text is modelled by the
\* set of its tokens
Tokens == {"Fox", "fox", "dog", "an"}
Texts == SUBSET Tokens
\* String.prototype.toLowerCase on a token
ToLowerCase == [t \in Tokens |-> IF t = "Fox" THEN "fox" ELSE t]
\* String.prototype.length of a token
TokenLength == [t \in Tokens |-> IF t = "an" THEN 2 ELSE 3]
\* thresholds passed to generateDiversePrompts
Thresholds == {0, 50, 100}

\* prompt-generator.ts 89, 92: lower case, split, words longer than 2
WordSet(text) == {w \in {ToLowerCase[t] : t \in text} : TokenLength[w] > 2}

\* prompt-generator.ts 95-100: (intersection.size / union.size) * 100 >
\* 100 - threshold; with an empty union the quotient is NaN and the
\* comparison is false
SimilarityExceeds(a, b, threshold) ==
  LET intersection == Cardinality(WordSet(a) \cap WordSet(b))
      union == Cardinality(WordSet(a) \cup WordSet(b))
  IN union # 0 /\ intersection * 100 > (100 - threshold) * union

\* variant of isDiverse that accepts every prompt
isDiverseAlways(newPrompt, existingPrompts, threshold) == TRUE

\* prompt-generator.ts 86-106
isDiverse(newPrompt, existingPrompts, threshold) ==
  \/ Len(existingPrompts) = 0
  \/ \A k \in 1..Len(existingPrompts) :
       ~SimilarityExceeds(newPrompt, existingPrompts[k], threshold)

\* prompt-generator.ts 108-141: the fallback prompts of the topic, the
\* first DiverseFallbacksKept of the five
FallbackPrompts ==
  [k \in 1..DiverseFallbacksKept |-> IF k = 1 THEN {"fox", "an"} ELSE {"dog", "Fox"}]

\* prompt-generator.ts 79: the prompt added to an empty pool
TellMeAbout == {"dog", "an"}

\* prompt-generator.ts 68-73: the fallback prompts that are diverse, up to
\* count prompts
RECURSIVE FillDiverseFallbacks(_, _, _, _)
FillDiverseFallbacks(ps, count, threshold, k) ==
  IF k > Len(FallbackPrompts) \/ Len(ps) >= count THEN ps
  ELSE FillDiverseFallbacks(
         IF isDiverse(FallbackPrompts[k], ps, threshold)
         THEN Append(ps, FallbackPrompts[k]) ELSE ps,
         count, threshold, k + 1)

\* prompt-generator.ts 66-83: fallback, guard against the empty pool, slice
FinishDiversePrompts(ps, count, threshold) ==
  LET filled == IF Len(ps) < count
                THEN LET f == FillDiverseFallbacks(ps, count, threshold, 1)
                     IN IF Len(f) = 0 THEN <<TellMeAbout>> ELSE f
                ELSE ps
  IN SubSeq(filled, 1, Min(count, Len(filled)))

\* prompt-generator.ts 5-13: generateDiversePrompts is called
DiverseStart(count, threshold) ==
  /\ lib.pc = "idle"
  /\ lib' = [LibIdle EXCEPT !.fn = "diverse", !.pc = "loop", !.count = count,
                            !.threshold = threshold]
  /\ UNCHANGED <<isAnalysisRunning, currentProgress, pushed, storageVars, run, hist, faults, work>>

\* prompt-generator.ts 15: the loop condition
DiverseLoops ==
  Len(lib.prompts) < lib.count /\ lib.attempts < lib.count * AttemptsPerDiversePrompt

\* prompt-generator.ts 15-59: one iteration, the adapter answers a text
DiverseCallAnswers(text) ==
  /\ lib.fn = "diverse"
  /\ lib.pc = "loop"
  /\ DiverseLoops
  /\ lib' = [lib EXCEPT !.attempts = @ + 1, !.calls = @ + 1, !.candidate = text,
                        !.prompts = IF Len(@) = 0 \/ isDiverse(text, @, lib.threshold)
                                    THEN Append(@, text) ELSE @]
  /\ UNCHANGED <<isAnalysisRunning, currentProgress, pushed, storageVars, run, hist, faults, work>>

\* prompt-generator.ts 15-63: one iteration, the answer is empty or the
\* adapter call throws
DiverseCallFails ==
  /\ lib.fn = "diverse"
  /\ lib.pc = "loop"
  /\ DiverseLoops
  /\ lib' = [lib EXCEPT !.attempts = @ + 1, !.calls = @ + 1, !.candidate = {}]
  /\ UNCHANGED <<isAnalysisRunning, currentProgress, pushed, storageVars, run, hist, faults, work>>

\* prompt-generator.ts 65-84: the loop is over, fallback prompts and return
DiverseReturn ==
  /\ lib.fn = "diverse"
  /\ lib.pc = "loop"
  /\ ~DiverseLoops
  /\ lib' = [lib EXCEPT !.pc = "returned",
                        !.result = FinishDiversePrompts(lib.prompts, lib.count, lib.threshold)]
  /\ UNCHANGED <<isAnalysisRunning, currentProgress, pushed, storageVars, run, hist, faults, work>>

\* ------------------------------------------------- functions of scraper.ts
\* A text is the sequence of its whitespace-separated tokens. A token is a
\* plain word or a string  proto www host path punct : a protocol or none,
\* "www." or not, a host name, a path or none, trailing punctuation or none.
\* A match of a pattern is such a string too; lead says that it begins with
\* the white space before the token.
Word == [kind |-> "word"]
UrlString(proto, www, host, path, punct) ==
  [kind |-> "url", lead |-> FALSE, proto |-> proto, www |-> www, host |-> host,
   path |-> path, punct |-> punct]

\* host names with a dot and an alphabetic top-level domain
DomainNames == {"example.org", "foo.com", "example.com", "httpbin.org"}
\* host names that begin with the letters http
HttpPrefixedHosts == {"httpbin.org"}

TextTokens ==
  { Word,
    UrlString("https://", FALSE, "example.org", "/a", ""),
    UrlString("", TRUE, "foo.com", "/b", ""),
    UrlString("http://", TRUE, "foo.com", "/b", ""),
    UrlString("", FALSE, "foo.com", "/b", "."),
    UrlString("http://", FALSE, "example.com", "/a", ""),
    UrlString("", FALSE, "localhost", "", ""),
    UrlString("", FALSE, "httpbin.org", "/a", "") }

\* "check https://example.org/a and www.foo.com/b"
ExampleText ==
  << Word, UrlString("https://", FALSE, "example.org", "/a", ""),
     Word, UrlString("", TRUE, "foo.com", "/b", "") >>

RECURSIVE SeqsUpTo(_, _)
SeqsUpTo(S, n) ==
  IF n = 0 THEN {<<>>}
  ELSE LET shorter == SeqsUpTo(S, n - 1)
       IN shorter \cup {Append(s, x) : s \in shorter, x \in S}

InputTexts == SeqsUpTo(TextTokens, MaxTokens) \cup {ExampleText}

RECURSIVE FlatMap(_, _, _)
FlatMap(Op(_, _), text, k) ==
  IF k > Len(text) THEN <<>> ELSE Op(text, k) \o FlatMap(Op, text, k + 1)

\* scraper.ts 120: https?:\/\/[^\s<>"{}|\\^`[\]]+  from the protocol to the
\* end of the token
MatchProtocol(text, k) ==
  IF text[k].kind = "url" /\ text[k].proto # "" THEN <<text[k]>> ELSE <<>>

\* scraper.ts 122: www\.[^\s<>"{}|\\^`[\]]+  from "www." to the end of the
\* token
MatchWww(text, k) ==
  IF text[k].kind = "url" /\ text[k].www
  THEN <<[text[k] EXCEPT !.proto = ""]>> ELSE <<>>

\* scraper.ts 124: start of the text or a white space, labels with dots, an
\* alphabetic top-level domain, and a path if there is one; trailing
\* punctuation belongs to the match only as part of the path
MatchDomain(text, k) ==
  IF text[k].kind = "url" /\ text[k].proto = "" /\ text[k].host \in DomainNames
  THEN <<[text[k] EXCEPT !.lead = (k > 1),
                         !.punct = IF text[k].path = "" THEN "" ELSE @]>>
  ELSE <<>>

\* scraper.ts 126: IP addresses; no token of TextTokens holds one
MatchIp(text, k) == <<>>

\* scraper.ts 128: localhost(?::[0-9]+)?(?:\/[^\s]*)?
MatchLocalhost(text, k) ==
  IF text[k].kind = "url" /\ text[k].host = "localhost"
  THEN <<[text[k] EXCEPT !.proto = "", !.www = FALSE,
                         !.punct = IF text[k].path = "" THEN "" ELSE @]>>
  ELSE <<>>

\* scraper.ts 131-136: the matches of the patterns, pattern after pattern
AllUrls(text) ==
  FlatMap(MatchProtocol, text, 1) \o FlatMap(MatchWww, text, 1)
    \o FlatMap(MatchDomain, text, 1) \o FlatMap(MatchIp, text, 1)
    \o FlatMap(MatchLocalhost, text, 1)

\* String.prototype.startsWith('http')
StartsWithHttp(u) ==
  u.proto # "" \/ (~u.www /\ u.host \in HttpPrefixedHosts)

\* scraper.ts 140-149: trim, protocol if missing, trailing punctuation
CleanUrl(u) ==
  LET trimmed == [u EXCEPT !.lead = FALSE]
      withProtocol == IF StartsWithHttp(trimmed) THEN trimmed
                      ELSE [trimmed EXCEPT !.proto = "https://"]
  IN [withProtocol EXCEPT !.punct = ""]

\* new URL(url).hostname
Hostname(u) == IF u.www THEN "www." \o u.host ELSE u.host

\* scraper.ts 150-164: new URL(url) throws without a protocol
KeepUrl(u) ==
  /\ u.proto # ""
  /\ ~IsPlaceholderHost(Hostname(u))

\* scraper.ts 116-167: extractUrlsFromText on the string of a text
extractUrlsFromString(text) ==
  Dedupe(SelectSeq([k \in 1..Len(AllUrls(text)) |-> CleanUrl(AllUrls(text)[k])], KeepUrl))

\* scraper.ts 116: extractUrlsFromText is called and returns
ExtractUrlsCall(text) ==
  /\ lib.pc = "idle"
  /\ lib' = [LibIdle EXCEPT !.fn = "extractUrls", !.pc = "returned", !.text = text,
                            !.result = extractUrlsFromString(text)]
  /\ UNCHANGED <<isAnalysisRunning, currentProgress, pushed, storageVars, run, hist, faults, work>>

\* ------------------------------------------- categorization of competitors
\* A name is the sequence of its characters.
CompetitorNames ==
  { <<"C", "l", "o", "u", "d", "f", "l", "a", "r", "e">>,
    <<"F", "a", "s", "t", "l", "y", " ", "C", "D", "N">>,
    <<"R", "e", "d", "i", "s">>,
    <<"A", "c", "m", "e">>,
    <<"A", "W", "S">>,
    <<"W", "e", "b", "D", "B">>,
    <<"E", "d", "g", "e", "C", "o">> }

\* String.prototype.toLowerCase on a character
LowerChar(c) ==
  CASE c = "A" -> "a" [] c = "B" -> "b" [] c = "C" -> "c" [] c = "D" -> "d"
    [] c = "E" -> "e" [] c = "F" -> "f" [] c = "G" -> "g" [] c = "H" -> "h"
    [] c = "I" -> "i" [] c = "J" -> "j" [] c = "K" -> "k" [] c = "L" -> "l"
    [] c = "M" -> "m" [] c = "N" -> "n" [] c = "O" -> "o" [] c = "R" -> "r" [] c = "S" -> "s"
    [] c = "W" -> "w"
    [] OTHER -> c

toLowerCase(s) == [k \in 1..Len(s) |-> LowerChar(s[k])]

\* String.prototype.includes
includes(s, sub) ==
  \E k \in 1..(Len(s) - Len(sub) + 1) : SubSeq(s, k, k + Len(sub) - 1) = sub

\* prompt-generator.ts 392-414: the keyword groups in the order of the tests
KeywordGroups ==
  << [category |-> "Cloud Platform",
      keywords |-> {<<"c", "l", "o", "u", "d">>,
                   <<"a", "w", "s">>,
                   <<"a", "z", "u", "r", "e">>,
                   <<"g", "c", "p">>,
                   <<"d", "i", "g", "i", "t", "a", "l", "o", "c", "e", "a", "n">>}],
     [category |-> "Platform as a Service",
      keywords |-> {<<"p", "l", "a", "t", "f", "o", "r", "m">>,
                   <<"s", "e", "r", "v", "i", "c", "e">>,
                   <<"d", "e", "p", "l", "o", "y">>,
                   <<"h", "o", "s", "t", "i", "n", "g">>,
                   <<"a", "p", "p">>,
                   <<"w", "e", "b">>}],
     [category |-> "Database Service",
      keywords |-> {<<"d", "a", "t", "a", "b", "a", "s", "e">>,
                   <<"d", "b">>,
                   <<"s", "q", "l">>,
                   <<"p", "o", "s", "t", "g", "r", "e", "s">>,
                   <<"m", "y", "s", "q", "l">>,
                   <<"r", "e", "d", "i", "s">>}],
     [category |-> "CDN/Edge Service",
      keywords |-> {<<"c", "d", "n">>,
                   <<"e", "d", "g", "e">>,
                   <<"c", "l", "o", "u", "d", "f", "l", "a", "r", "e">>}] >>

\* prompt-generator.ts 382-418: MockBrandAnalyzer.categorizeCompetitor, the
\* stored category or the category of the first group with a keyword in
\* the name
MockCategorize(name, stored) ==
  LET lowerName == toLowerCase(name)
      hits == {g \in 1..Len(KeywordGroups) :
                 \E kw \in KeywordGroups[g].keywords : includes(lowerName, kw)}
  IN IF stored # Null THEN stored
     ELSE IF hits = {} THEN "Cloud Service"
     ELSE KeywordGroups[CHOOSE g \in hits : \A h \in hits : g <= h].category

\* how the categorization call of analyzer.ts 558-581 ends: an answer with
\* a content or without, an error, or the 15 s timer
CategorizationOutcomes ==
  { [kind |-> "answer", content |-> "SaaS"], [kind |-> "answer", content |-> ""],
    [kind |-> "error", content |-> ""], [kind |-> "timeout", content |-> ""] }

StoredCategories == {Null, "Finance"}

\* analyzer.ts 537-591: BrandAnalyzer.categorizeCompetitor
AnalyzerCategorize(name, stored, outcome) ==
  IF stored # Null THEN stored
  ELSE IF outcome.kind = "answer"
       THEN (IF outcome.content # "" THEN outcome.content ELSE "Technology")
       ELSE "Technology"

\* analyzer.ts 537: BrandAnalyzer.categorizeCompetitor is called and returns
AnalyzerCategorizeCall(name, stored, outcome) ==
  /\ lib.pc = "idle"
  /\ lib' = [LibIdle EXCEPT !.fn = "categorize", !.pc = "returned", !.text = name,
                            !.stored = stored, !.outcome = outcome.kind,
                            !.value = AnalyzerCategorize(name, stored, outcome)]
  /\ UNCHANGED <<isAnalysisRunning, currentProgress, pushed, storageVars, run, hist, faults, work>>

\* prompt-generator.ts 382: MockBrandAnalyzer.categorizeCompetitor is called
\* and returns
MockCategorizeCall(name, stored) ==
  /\ lib.pc = "idle"
  /\ lib' = [LibIdle EXCEPT !.fn = "mockCategorize", !.pc = "returned", !.text = name,
                            !.stored = stored, !.value = MockCategorize(name, stored)]
  /\ UNCHANGED <<isAnalysisRunning, currentProgress, pushed, storageVars, run, hist, faults, work>>

\* ------------------------------------------------ extraction of competitors
\* openai.ts 480: at most this many competitors are returned
MaxCompetitors == 10

\* openai.ts 485: a candidate this similar to a kept name is left out
SimilarityLimit == 70

\* the longest list of candidates taken from all the items
MaxItems == 3

\* the longest list of pairwise dissimilar candidates
MaxListed == 12

\* an item of the array the adapter answers: a string or something else
StringItem(s) == [type |-> "string", value |-> s]
NumberItem == [type |-> "number", value |-> <<>>]

CandidateNames ==
  { <<"A", "c", "m", "e">>,
    <<"A", "C", "M", "E">>,
    <<"A", "c", "m", "e", " ", "I", "n", "c">>,
    <<"A", "I", " ", "G", "o">>,
    <<"G", "o", " ", "A", "I">>,
    <<"D", "a", "t", "a", " ", "B", "i", "g">>,
    <<"D", "a", "t", "a", " ", "B", "i", "g", " ", "B", "i", "g">>,
    <<"B", "i", "g", " ", "D", "a", "t", "a", " ", "L", "a", "b", "s">> }

Letters == <<"A", "B", "C", "D", "E", "F", "G", "H", "I", "J", "K", "L", "M">>

\* "Co A", "Co B", ...: names that are pairwise dissimilar
ListedName(k) == <<"C", "o", " ", Letters[k]>>

CandidateItems == {StringItem(s) : s \in CandidateNames} \cup {NumberItem}

\* the arrays the adapter answers
CandidateLists ==
  UNION {[1..n -> CandidateItems] : n \in 0..MaxItems}
    \cup {[k \in 1..n |-> StringItem(ListedName(k))] : n \in (MaxCompetitors - 1)..MaxListed}
    \cup {[k \in 1..n |-> IF k = 2 THEN StringItem(ListedName(1)) ELSE StringItem(ListedName(k))] :
            n \in (MaxCompetitors - 1)..MaxListed}

\* what the adapter call of extractCompetitorsFromText gives: it rejects,
\* or its content is no JSON, a JSON value that is no array, or an array
ExtractionOutcomes ==
  {[kind |-> k, items |-> <<>>] : k \in {"rejects", "invalidJson", "object"}}
    \cup {[kind |-> "array", items |-> l] : l \in CandidateLists}

\* text.split(/\s+/): the pieces between the runs of blanks, from
\* position k on, word being the piece read so far
RECURSIVE SplitFrom(_, _, _)
SplitFrom(s, k, word) ==
  IF k > Len(s) THEN <<word>>
  ELSE IF s[k] = " "
       THEN (IF k > 1 /\ s[k - 1] = " " THEN SplitFrom(s, k + 1, word)
             ELSE <<word>> \o SplitFrom(s, k + 1, <<>>))
       ELSE SplitFrom(s, k + 1, Append(word, s[k]))

SplitWords(s) == SplitFrom(s, 1, <<>>)

Range(seq) == {seq[k] : k \in DOMAIN seq}

\* a quotient num / den of the similarity, and its comparison with a limit
Quotient(num, den) == [num |-> num, den |-> den]
Below(q, limit) == q.num < limit * q.den

\* openai.ts 360-376
calculateCompetitorSimilarity(competitor1, competitor2) ==
  LET text1 == toLowerCase(competitor1)
      text2 == toLowerCase(competitor2)
      LongWord(word) == Len(word) > 2
      words1 == SelectSeq(SplitWords(text1), LongWord)
      words2 == SelectSeq(SplitWords(text2), LongWord)
      InWords2(word) == word \in Range(words2)
      intersection == SelectSeq(words1, InWords2)
      union == Range(words1) \cup Range(words2)
  IN IF text1 = text2 THEN Quotient(100, 1)
     ELSE IF includes(text1, text2) \/ includes(text2, text1) THEN Quotient(90, 1)
     ELSE IF Cardinality(union) > 0
          THEN Quotient(Len(intersection) * 100, Cardinality(union))
          ELSE Quotient(0, 1)

\* openai.ts 478-491: the loop over the candidates, kept being
\* diverseCompetitors
RECURSIVE DiverseCompetitors(_, _)
DiverseCompetitors(candidates, kept) ==
  IF candidates = <<>> \/ Len(kept) >= MaxCompetitors THEN kept
  ELSE LET competitor == Head(candidates)
           isDiverseName == \A k \in 1..Len(kept) :
              Below(calculateCompetitorSimilarity(competitor, kept[k]), SimilarityLimit)
       IN DiverseCompetitors(Tail(candidates),
                             IF isDiverseName THEN Append(kept, competitor) ELSE kept)

\* openai.ts 432-501: what extractCompetitorsFromText returns
ExtractedCompetitors(outcome) ==
  IF outcome.kind = "array"
  THEN LET IsString(item) == item.type = "string"
           strings == SelectSeq(outcome.items, IsString)
       IN DiverseCompetitors([k \in 1..Len(strings) |-> strings[k].value], <<>>)
  ELSE <<>>

\* openai.ts 432: extractCompetitorsFromText is called and returns
ExtractCompetitorsCall(outcome) ==
  /\ lib.pc = "idle"
  /\ lib' = [LibIdle EXCEPT !.fn = "extractCompetitors", !.pc = "returned",
                            !.outcome = outcome.kind, !.items = outcome.items,
                            !.result = ExtractedCompetitors(outcome)]
  /\ UNCHANGED <<isAnalysisRunning, currentProgress, pushed, storageVars, run, hist, faults, work>>

\* ------------------------------------------- the two storage implementations
\* most calls of an update on one record
MaxUpdates == 3

StorageImplementations == {"MemStorage", "DatabaseStorage"}
CountedTables == {"competitors", "sources"}

\* a nullable integer column
NullCount == [isNull |-> TRUE, n |-> 0]
CountOf(n) == [isNull |-> FALSE, n |-> n]

\* storage.ts 216-226 and 245-256 (`count || null`), database-storage
\* createCompetitor and createSource (the value is inserted as given): the
\* count of the record created with mentionCount or citationCount initial
CreatedCount(impl, initial) ==
  IF impl = "MemStorage"
  THEN (IF initial = 0 THEN NullCount ELSE CountOf(initial))
  ELSE CountOf(initial)

\* storage.ts 232-239 and 262-269 (no change when the count is null),
\* database-storage updateCompetitorMentionCount and
\* updateSourceCitationCount (count + increment, NULL staying NULL)
UpdatedCount(impl, count, increment) ==
  IF count.isNull THEN count ELSE CountOf(count.n + increment)

\* createCompetitor or createSource of an implementation is called
StorageCreate(impl, table, initial) ==
  /\ lib.pc = "idle"
  /\ lib' = [LibIdle EXCEPT !.fn = "storage", !.pc = "stored", !.impl = impl,
                            !.table = table, !.count = initial, !.calls = 0,
                            !.row = CreatedCount(impl, initial)]
  /\ UNCHANGED <<isAnalysisRunning, currentProgress, pushed, storageVars, run, hist, faults, work>>

\* updateCompetitorMentionCount(name, 1) or updateSourceCitationCount(domain, 1)
\* is called for the record
StorageUpdate ==
  /\ lib.fn = "storage"
  /\ lib.calls < MaxUpdates
  /\ lib' = [lib EXCEPT !.calls = @ + 1, !.row = UpdatedCount(lib.impl, @, 1)]
  /\ UNCHANGED <<isAnalysisRunning, currentProgress, pushed, storageVars, run, hist, faults, work>>

\* calls of the functions of openai.ts, prompt-generator.ts, scraper.ts, of
\* categorizeCompetitor and of the two storage implementations
\* with every input and every behaviour of the adapter
NextLib ==
  \/ \E count \in 0..MaxCount : GenStart(count)
  \/ \E text \in ValidAnswers : GenCallAccepts(text)
  \/ GenCallRejects
  \/ GenCallThrows
  \/ GenReturn
  \/ RetryStart
  \/ \E v \in ApiValues : AttemptSucceeds(v)
  \/ \E e \in ApiErrors : AttemptFails(e)
  \/ AttemptTimesOut
  \/ \E count \in 0..MaxPerTopic, threshold \in Thresholds : DiverseStart(count, threshold)
  \/ \E text \in Texts \ {{}} : DiverseCallAnswers(text)
  \/ DiverseCallFails
  \/ DiverseReturn
  \/ \E text \in InputTexts : ExtractUrlsCall(text)
  \/ \E name \in CompetitorNames, stored \in StoredCategories,
        outcome \in CategorizationOutcomes : AnalyzerCategorizeCall(name, stored, outcome)
  \/ \E name \in CompetitorNames, stored \in StoredCategories : MockCategorizeCall(name, stored)
  \/ \E outcome \in ExtractionOutcomes : ExtractCompetitorsCall(outcome)
  \/ \E impl \in StorageImplementations, table \in CountedTables, initial \in 0..1 :
       StorageCreate(impl, table, initial)
  \/ StorageUpdate

SpecLib == Init /\ [][NextLib]_vars

\* ------------------------------------------------------------------ claims
\* Response rows in the table that the accepted call r persisted
ResponsesBy(r) == Cardinality({k \in 1..Len(responses) : responses[k].run = r})
\* number of prompts the accepted call r iterates over
TotalOf(r) ==
  IF Len(run[r].savedPrompts) > 0 THEN Len(run[r].savedPrompts) ELSE Len(run[r].allPrompts)
\* a call of runFullAnalysis, accepted or not
CallStep == StartRejected \/ \E r \in Runs, in \in StartInputs : StartAccepted(r, in)
\* exactly one call of runFullAnalysis was made and stopCurrentAnalysis was
\* called while the run of that call was active
OneCallStopped == hist.calls = 1 /\ hist.stopAt.seen
Count(seq, x) == Cardinality({k \in 1..Len(seq) : seq[k] = x})

\* C1, as the specification states it: a call of runFullAnalysis that
\* arrives while a run is active changes neither the running flag nor the
\* progress record nor any stored record, and starts no run.
C1_CallWhileActiveIsNoOp ==
  [][(CallStep /\ \E q \in Runs : Active(q)) =>
       UNCHANGED <<isAnalysisRunning, currentProgress, pushed, storageVars, run>>]_vars

\* C2, as the specification states it: at most one run is between its
\* admission and its end.
C2_AtMostOneActiveRun == Cardinality({r \in Runs : Active(r)}) <= 1

\* the segment of r ends at the cancellation check of the loop
ReachesCheck(r) ==
  /\ run'[r] # run[r]
  /\ \/ run[r].pc \in {"createResponse", "getPrompts"}
     \/ run[r].pc = "clearCompetitors" /\ run[r].phase = 2
  /\ run'[r].i < Len(run'[r].allPrompts)

\* C3: when the loop of a run finds the flag cleared at the top of an
\* iteration, the run ends there without raising: it publishes status
\* error with the message 'Analysis cancelled by user', the records stored
\* before stay as they are (the step adds at most the response of the
\* iteration that just ended), and the run takes no further step, hence
\* makes no further write.
C3_CancelObservedAtLoopTop ==
  [][\A r \in Runs :
       /\ (ReachesCheck(r) /\ ~isAnalysisRunning) =>
            /\ run'[r].pc = "cancelled"
            /\ currentProgress'.status = "error"
            /\ currentProgress'.message.text = "Analysis cancelled by user"
            /\ ~isAnalysisRunning'
            /\ run[r].pc = "createResponse" =>
                 /\ UNCHANGED <<prompts, competitors, sources, analytics>>
                 /\ Len(responses') <= Len(responses) + 1
                 /\ SubSeq(responses', 1, Len(responses)) = responses
       /\ run[r].pc = "cancelled" => run'[r] = run[r]]_vars

\* a run was cancelled after it had persisted a response, which is still stored
C3_Witness ==
  \E r \in Runs :
    /\ run[r].pc = "cancelled"
    /\ run[r].completedCount >= 1
    /\ ResponsesBy(r) >= 1
    /\ currentProgress.status = "error"

C5_StoppedRunNeverFinalizes ==
  (OneCallStopped /\ hist.stopAt.inLoop) =>
     /\ run[1].pc \notin {"generateAnalytics", "complete"}
     /\ \A k \in 1..Len(analytics) : analytics[k].run # 1

\* C6: a failure of analyzePromptResponse does not abort the run and does
\* not skip the prompt.  A run that is not cancelled, whose adapter call
\* failed for each of its N prompts and none of whose storage calls raised,
\* ends complete with exactly N responses persisted (all of them in the table
\* when no other call of runFullAnalysis was made).
C6_FallbackKeepsEveryPrompt ==
  \A r \in Runs :
    (/\ run[r].pc \in EndPcs \ {"cancelled"}
     /\ Len(run[r].allPrompts) > 0
     /\ run[r].fallbacks = Len(run[r].allPrompts)
     /\ run[r].skipped = 0) =>
       /\ run[r].pc = "complete"
       /\ run[r].completedCount = Len(run[r].allPrompts)
       /\ hist.calls = 1 => ResponsesBy(r) = Len(run[r].allPrompts)

\* the adapter failed for both prompts of a run, which ended complete
C6_Witness ==
  \E r \in Runs :
    /\ run[r].pc = "complete"
    /\ run[r].fallbacks = 2
    /\ Len(run[r].allPrompts) = 2
    /\ ResponsesBy(r) = 2

\* a storage call of r raises while r processes a prompt
FaultInLoop(r) == faults' = faults + 1 /\ run'[r] # run[r] /\ run[r].pc \in LoopPcs

MentionCountOf(c) ==
  IF CompetitorExists(c)
  THEN competitors[CHOOSE k \in 1..Len(competitors) : competitors[k].name = c].mentionCount
  ELSE 0

\* C8, as the specification states it: when the only run, started on empty
\* tables, has ended, the mentionCount of every competitor is the number of
\* persisted responses that name it.
C8_MentionCountIsResponseCount ==
  (hist.calls = 1 /\ run[1].pc \in EndPcs) =>
     \A c \in {"X", "Y"} :
        MentionCountOf(c) =
          Cardinality({k \in 1..Len(responses) :
                         \E j \in 1..Len(responses[k].competitorsMentioned) :
                            responses[k].competitorsMentioned[j] = c})

\* the domains that occur in a sequence of URLs or of cited domains
HostsOf(urls) == {extractDomainFromUrl(urls[k]) : k \in 1..Len(urls)}

\* C9: while a prompt is processed, every update of a citation count
\* raises the count of the source of one domain by exactly 1 and no other
\* count; when the sources of the prompt are done, the count of a domain
\* that passes the filter was raised once if a collected URL lies on the
\* domain, and no other domain's count was raised.
C9_OneCitationPerDomain ==
  [][\A r \in Runs :
       /\ (run[r].pc = "updateSource" /\ run'[r] # run[r]) =>
            /\ SourceExists(CurrentDomain(r).domain)
            /\ Len(sources') = Len(sources)
            /\ \A k \in 1..Len(sources) :
                 /\ sources'[k].domain = sources[k].domain
                 /\ sources'[k].citationCount =
                      sources[k].citationCount +
                        (IF sources[k].domain = CurrentDomain(r).domain THEN 1 ELSE 0)
       /\ (run'[r].pc = "createResponse" /\ run[r].pc # "createResponse") =>
            LET urls == CollectUrls(run'[r].analysis,
                                    run'[r].allPrompts[run'[r].i + 1].text)
            IN \A d \in HostsOf(urls) \cup {run'[r].cited[k] : k \in 1..Len(run'[r].cited)} :
                 Count(run'[r].cited, d) =
                   (IF ~IsPlaceholderHost(d) /\ d \in HostsOf(urls) THEN 1 ELSE 0)]_vars

\* the sources of a prompt are done: two collected URLs lie on one domain,
\* whose count was raised once
C9_Witness ==
  \E r \in Runs :
    /\ run[r].pc = "createResponse"
    /\ \E k \in 1..Len(run[r].urlsByDomain) :
         /\ Len(run[r].urlsByDomain[k].urls) = 2
         /\ Count(run[r].cited, run[r].urlsByDomain[k].domain) = 1
         /\ \E j \in 1..Len(sources) :
              /\ sources[j].domain = run[r].urlsByDomain[k].domain
              /\ sources[j].citationCount >= 1

\* C10, as the specification states it: no two source rows share a domain.
C10_DomainsAreUnique ==
  \A j, k \in 1..Len(sources) : j # k => sources[j].domain # sources[k].domain

\* the prompt rows, response rows and competitor rows stored before the
\* r-th accepted call was admitted
OldRows(r, ps, rs, cs) ==
  {k \in 1..Len(ps) : ps[k].epoch < r} \cup {k \in 1..Len(rs) : rs[k].epoch < r}
    \cup {k \in 1..Len(cs) : cs[k].epoch < r}
ClearingPcs == {"resetDelay", "clearPromptResponses", "clearPrompts", "clearResponses",
                "clearCompetitors"}

\* C11: once a run started with saved prompts has entered its prompt loop,
\* no prompt, response or competitor row stored before its admission is
\* left; and no step the run takes before the loop changes a source row.
C11_SavedRunClearsButKeepsSources ==
  [][\A r \in Runs :
       /\ (Len(run'[r].savedPrompts) > 0 /\ Len(run'[r].allPrompts) > 0) =>
            OldRows(r, prompts', responses', competitors') = {}
       /\ (Len(run[r].savedPrompts) > 0 /\ run[r].pc \in ClearingPcs /\ run'[r] # run[r]) =>
            sources' = sources]_vars

\* the second run, started with saved prompts after the first had stored a
\* response, a competitor and a source, processes its first prompt: only
\* the source is left
C11_Witness ==
  /\ MaxRuns >= 2
  /\ run[1].pc = "complete"
  /\ run[1].completedCount >= 1
  /\ Len(run[2].savedPrompts) > 0
  /\ run[2].pc = "analyze"
  /\ responses = <<>>
  /\ competitors = <<>>
  /\ Len(prompts) = 1
  /\ \E k \in 1..Len(sources) : sources[k].citationCount >= 1

\* C12, as the specification states it: a step of a run started with
\* useExistingPrompts and no saved prompts deletes no prompt row and adds
\* a prompt row only if no stored row has its text.
C12_ExistingRunAddsNoStoredPrompt ==
  [][\A r \in Runs :
       (run[r].useExistingPrompts /\ Len(run[r].savedPrompts) = 0 /\ run'[r] # run[r]) =>
          /\ Len(prompts') >= Len(prompts)
          /\ SubSeq(prompts', 1, Len(prompts)) = prompts
          /\ \A k \in (Len(prompts) + 1)..Len(prompts') :
               \A j \in 1..Len(prompts) : prompts[j].text # prompts'[k].text]_vars

\* analytics rows of the table an that the accepted call r persisted
AnalyticsBy(an, r) == Cardinality({k \in 1..Len(an) : an[k].run = r})

\* C13, as the specification states it: every run that has finished its
\* prompt loop without cancellation and has ended has persisted exactly
\* one analytics row.
C13_OneAnalyticsPerFinishedLoop ==
  \A r \in Runs :
    (/\ run[r].pc \in {"complete", "failed"}
     /\ Len(run[r].allPrompts) > 0
     /\ run[r].i = Len(run[r].allPrompts)) => AnalyticsBy(analytics, r) = 1

\* C13, amended: a run persists exactly one analytics row if it finishes
\* its prompt loop without cancellation and its finalization does not
\* raise, and none if it ends by cancellation or by a run-fatal error (in
\* finalization too).  The row is persisted after the last response of
\* the run, when the loop is over, and complete with progress 100 is
\* published with it, never without an analytics row stored.
C13_OneAnalyticsPerCompletedRun ==
  [][\A r \in Runs :
       /\ AnalyticsBy(analytics', r) = (IF run'[r].pc = "complete" THEN 1 ELSE 0)
       /\ AnalyticsBy(analytics', r) > AnalyticsBy(analytics, r) =>
            /\ run[r].pc = "generateAnalytics"
            /\ run[r].i = Len(run[r].allPrompts)
            /\ responses' = responses
            /\ currentProgress'.status = "complete"
            /\ currentProgress'.progress = Frac(100, 1)
       /\ currentProgress'.status = "complete" => Len(analytics') >= 1]_vars

\* a run has completed after persisting a response and one analytics row;
\* another has failed in its finalization and persisted none
C13_Witness ==
  \E r, q \in Runs :
    /\ run[r].pc = "complete"
    /\ run[r].completedCount >= 1
    /\ AnalyticsBy(analytics, r) = 1
    /\ run[q].pc = "failed"
    /\ run[q].completedCount >= 1
    /\ run[q].i = Len(run[q].allPrompts)
    /\ AnalyticsBy(analytics, q) = 0

\* a storage call of r outside the per-prompt try raises
FatalFault(r) == faults' = faults + 1 /\ run'[r] # run[r] /\ run[r].pc \notin LoopPcs

\* C14: when a call outside the per-prompt catch raises (while clearing,
\* loading the prompts or finalizing), the run publishes status error with
\* the message 'Analysis failed: ' followed by the message of the
\* exception, ends by raising to its caller, and takes no further step, so
\* it publishes nothing afterwards.
C14_RunFatalPublishesErrorAndRaises ==
  [][\A r \in Runs :
       /\ FatalFault(r) =>
            /\ run'[r].pc = "failed"
            /\ currentProgress'.status = "error"
            /\ currentProgress'.message = Msg("Analysis failed: ", <<"error.message">>)
            /\ currentProgress'.progress = Frac(0, 1)
            /\ UNCHANGED storageVars
       /\ run[r].pc = "failed" => run'[r] = run[r]]_vars

\* the finalization of a run raised after a response was persisted: the
\* run has failed and the error is published
C14_Witness ==
  \E r \in Runs :
    /\ run[r].pc = "failed"
    /\ run[r].completedCount >= 1
    /\ hist.lastFault = "fatal"
    /\ currentProgress.status = "error"
    /\ currentProgress.message.text = "Analysis failed: "

\* C15: in the step in which an accepted run ends, by completion, by a
\* run-fatal error or by cancellation, the running flag is false; the flag
\* is never set while no run is active; and a call of runFullAnalysis that
\* finds the flag false is accepted and starts a new run.
C15_FlagReleasedAtEnd ==
  [][/\ \A r \in Runs :
          (run[r].pc \notin EndPcs /\ run'[r].pc \in EndPcs) => ~isAnalysisRunning'
     /\ (\A r \in Runs : run'[r].pc \in {"idle"} \cup EndPcs) => ~isAnalysisRunning'
     /\ (CallStep /\ ~isAnalysisRunning) =>
          \E r \in Runs : /\ run[r].pc = "idle"
                          /\ run'[r].pc = "resetDelay"
                          /\ isAnalysisRunning']_vars

\* a run has ended by a run-fatal error and the next call was accepted
C15_Witness ==
  \E r, q \in Runs :
    /\ run[r].pc = "failed"
    /\ run[q].pc = "resetDelay"
    /\ isAnalysisRunning

\* equality and order of progress values n/d
FracEq(a, b) == a[1] * b[2] = b[1] * a[2]
FracInRange(a, lo, hi) == a[2] > 0 /\ lo * a[2] <= a[1] /\ a[1] <= hi * a[2]

\* C16: the update that ends an iteration of the loop publishes
\* completedPrompts and totalPrompts with 0 <= completedPrompts <=
\* totalPrompts and, visible when the loop goes on, status
\* testing_prompts and progress = 30 + (completedPrompts/totalPrompts)*50;
\* the update at the entry of the loop publishes 30; the published
\* progress lies in 0..100 in every state.
C16_LoopProgress ==
  [][/\ FracInRange(currentProgress.progress, 0, 100)
     /\ FracInRange(currentProgress'.progress, 0, 100)
     /\ currentProgress'.completedPrompts >= 0
     /\ currentProgress'.completedPrompts <= currentProgress'.totalPrompts
     /\ \A r \in Runs :
          /\ run'[r].i = run[r].i + 1 =>
               LET c == run'[r].completedCount
                   t == Len(run[r].allPrompts)
               IN /\ t > 0 /\ 0 <= c /\ c <= t
                  /\ currentProgress'.completedPrompts = c
                  /\ currentProgress'.totalPrompts = t
                  /\ run'[r].pc = "createPrompt" =>
                       /\ currentProgress'.status = "testing_prompts"
                       /\ FracEq(currentProgress'.progress, Frac(30 * t + 50 * c, t))
          /\ (run[r].pc \in {"getPrompts", "clearCompetitors"} /\ run'[r].pc = "createPrompt") =>
               /\ currentProgress'.status = "testing_prompts"
               /\ FracEq(currentProgress'.progress, Frac(30, 1))
               /\ currentProgress'.completedPrompts = 0
               /\ currentProgress'.totalPrompts = Len(run'[r].allPrompts)]_vars

\* the first of two prompts is done: 1 of 2, progress 55
C16_Witness ==
  /\ currentProgress.status = "testing_prompts"
  /\ currentProgress.completedPrompts = 1
  /\ currentProgress.totalPrompts = 2
  /\ FracEq(currentProgress.progress, Frac(55, 1))
  /\ \E r \in Runs : run[r].pc = "createPrompt" /\ run[r].i = 1

\* C17, as the specification states it: with a single call of
\* runFullAnalysis, once the status error has been published no other
\* status is published.
C17_ErrorIsFinal ==
  [][(hist.calls = 1 /\ hist'.calls = 1 /\ currentProgress.status = "error") =>
        currentProgress'.status = "error"]_vars

\* C18: the responses of a run are persisted in the order of its prompt
\* list: of two response rows of the same run, the one stored first belongs
\* to the earlier position; a run has one prompt in process at a time, its
\* position only moves forward by one when the processing of the prompt has
\* ended, and every response of the run stored so far belongs to a
\* position whose processing has ended.
C18_ResponsesInListOrder ==
  [][/\ \A j, k \in 1..Len(responses') :
          (j < k /\ responses'[j].run = responses'[k].run) =>
             responses'[j].pos < responses'[k].pos
     /\ \A r \in Runs :
          /\ \A k \in 1..Len(responses') :
               responses'[k].run = r => responses'[k].pos <= run'[r].i
          /\ run[r].pc \in LoopPcs => run'[r].i \in {run[r].i, run[r].i + 1}
          /\ (run[r].pc \in LoopPcs /\ run'[r].i = run[r].i + 1) =>
               run[r].pc \in {"createPrompt", "createResponse"}
          /\ (run[r].pc = "createResponse" /\ run'[r] # run[r]
                                            /\ Len(responses') > Len(responses)) =>
               /\ responses'[Len(responses')].pos = run[r].i + 1
               /\ responses'[Len(responses')].text = run[r].analysis.response
               /\ SubSeq(responses', 1, Len(responses)) = responses]_vars

\* a run has persisted the responses of both its prompts, in list order
C18_Witness ==
  \E r \in Runs :
    /\ run[r].i = 2
    /\ \E j, k \in 1..Len(responses) :
         /\ j < k
         /\ responses[j].run = r /\ responses[j].pos = 1
         /\ responses[k].run = r /\ responses[k].pos = 2
         /\ responses[j].promptId < responses[k].promptId

\* C19: generatePromptsForTopic makes at most count * 5 adapter calls,
\* makes a call only while fewer than count answers have been accepted, and
\* returns exactly count prompts, whatever the adapter answers and however
\* often it fails.
C19_ExactlyCountPrompts ==
  [][lib'.fn = "generate" =>
       /\ lib'.calls <= lib'.count * AttemptsPerPrompt
       /\ lib'.calls > lib.calls =>
            /\ Len(lib.prompts) < lib.count
            /\ lib'.calls = lib.calls + 1
       /\ lib'.pc = "returned" =>
            /\ Len(lib'.result) = lib'.count
            /\ lib'.calls = lib.calls]_vars

\* every one of the count * 5 calls failed or was rejected for the greatest
\* count: the result is made of the templates and a numbered variation
C19_Witness ==
  /\ lib.fn = "generate"
  /\ lib.pc = "returned"
  /\ lib.count = MaxCount
  /\ lib.calls = MaxCount * AttemptsPerPrompt
  /\ Len(lib.result) = MaxCount
  /\ lib.result[MaxCount].kind = "numbered"

PairOverlap(ps, j, k) == Cardinality(WordSet(ps[j]) \cap WordSet(ps[k])) * 100
PairUnion(ps, j, k) == Cardinality(WordSet(ps[j]) \cup WordSet(ps[k]))

\* C21, as the specification states it: every pair of accepted prompts has
\* a word-overlap similarity strictly less than 100 - T.
C21_PairsStrictlyBelow ==
  lib.fn = "diverse" =>
    \A k \in 1..Len(lib.prompts) : \A j \in 1..(k - 1) :
      PairUnion(lib.prompts, j, k) # 0 =>
        PairOverlap(lib.prompts, j, k)
          < (100 - lib.threshold) * PairUnion(lib.prompts, j, k)

\* C21, amended: in the pool of generateDiversePrompts and in its result,
\* every pair of prompts of which one has a word longer than 2 characters
\* has a word-overlap similarity of at most 100 - T, and a candidate offered
\* to the empty pool is accepted.
C21_PairsAtMost ==
  [][lib'.fn = "diverse" =>
       /\ \A ps \in {lib'.prompts, lib'.result} :
            \A k \in 1..Len(ps) : \A j \in 1..(k - 1) :
              PairUnion(ps, j, k) # 0 =>
                PairOverlap(ps, j, k) <= (100 - lib'.threshold) * PairUnion(ps, j, k)
       /\ (lib.fn = "diverse" /\ lib.prompts = <<>> /\ lib'.calls > lib.calls
             /\ lib'.candidate # {}) =>
            lib'.prompts = <<lib'.candidate>>]_vars

\* two prompts whose similarity is exactly 100 - T were both accepted and
\* are returned
C21_Witness ==
  /\ lib.fn = "diverse"
  /\ lib.pc = "returned"
  /\ lib.threshold = 50
  /\ Len(lib.result) = 2
  /\ PairUnion(lib.result, 1, 2) = 2
  /\ PairOverlap(lib.result, 1, 2) = 100
  /\ lib.calls = 2

\* C22: pull and push agree: once an analyzer has been started, the record
\* its progress callback received last is the shared progress record that
\* getCurrentProgress returns, whoever changed the record last (the run,
\* the reset on entry, stopCurrentAnalysis).
C22_PushEqualsPull == hist.calls >= 1 => pushed = <<currentProgress>>

\* the URL a token mentions, with https:// when the text gives no protocol
MentionedUrl(t) ==
  [t EXCEPT !.proto = IF @ = "" THEN "https://" ELSE @, !.punct = ""]

\* the distinct URLs a text mentions, in the order of their first
\* appearance, without those of a placeholder host
MentionedUrls(text) ==
  LET urlTokens == SelectSeq(text, LAMBDA t : t.kind = "url")
      mentioned == [k \in 1..Len(urlTokens) |-> MentionedUrl(urlTokens[k])]
  IN Dedupe(SelectSeq(mentioned, LAMBDA u : ~IsPlaceholderHost(Hostname(u))))

\* C23: extractUrlsFromText returns one entry per distinct URL of the text,
\* in the order of first appearance, each with a protocol and none with a
\* placeholder host; for "check https://example.org/a and www.foo.com/b"
\* it returns exactly "https://example.org/a", "https://foo.com/b".
C23_OneEntryPerUrlInTextOrder ==
  (lib.fn = "extractUrls" /\ lib.pc = "returned") =>
    /\ Len(lib.result) = Len(MentionedUrls(lib.text))
    /\ \A k \in 1..Len(lib.result) :
         /\ lib.result[k].proto # ""
         /\ ~IsPlaceholderHost(Hostname(lib.result[k]))
         /\ k <= Len(MentionedUrls(lib.text)) =>
              /\ lib.result[k].host = MentionedUrls(lib.text)[k].host
              /\ lib.result[k].path = MentionedUrls(lib.text)[k].path
    /\ lib.text = ExampleText =>
         lib.result = << UrlString("https://", FALSE, "example.org", "/a", ""),
                         UrlString("https://", FALSE, "foo.com", "/b", "") >>

\* C24: the step that accepts a runFullAnalysis call leaves the shared
\* progress record at status initializing with progress 0, totalPrompts 0
\* and completedPrompts 0, and once a call has been accepted no run
\* accepted before it publishes a value any more.
C24_ResetOnEntryHidesEarlierRuns ==
  [][\A r \in Runs :
       /\ (run[r].pc = "idle" /\ run'[r].pc # "idle") =>
            /\ currentProgress'.status = "initializing"
            /\ FracEq(currentProgress'.progress, Frac(0, 1))
            /\ currentProgress'.totalPrompts = 0
            /\ currentProgress'.completedPrompts = 0
       /\ (run'[r] # run[r] /\ \E q \in Runs : q > r /\ run[q].pc # "idle") =>
            currentProgress' = currentProgress]_vars

\* the accepted call r has assembled its prompt list
HasPromptList(r) == run[r].pc \in LoopPcs \cup {"generateAnalytics", "complete", "cancelled"}

\* C25: a run enters exactly one prompt sourcing branch, and a run whose
\* argument savedPrompts is an array, empty or not, enters the branch of
\* the saved prompts and processes exactly these prompts in their order.
C25_SavedPromptsTakeSavedBranch ==
  \A r \in Runs :
    /\ Cardinality(run[r].took) <= 1
    /\ HasPromptList(r) => Cardinality(run[r].took) = 1
    /\ run[r].savedGiven =>
         /\ run[r].took \subseteq {"saved"}
         /\ HasPromptList(r) =>
              run[r].allPrompts =
                [k \in 1..Len(run[r].savedPrompts) |->
                   [text |-> run[r].savedPrompts[k].text,
                    topicId |-> run[r].savedPrompts[k].topicId]]

\* C26: cancellation is honoured only at the iteration boundary. A run that
\* is in the middle of an iteration while the flag is cleared goes on with
\* the same prompt until the iteration ends; and when stopCurrentAnalysis
\* was called during the only run and no further call of runFullAnalysis
\* is made, the only Response the run persists afterwards is that of the
\* prompt that was in flight, so at most one.
C26_InFlightPromptFinishes ==
  [][/\ \A r \in Runs :
          (run'[r] # run[r] /\ run[r].pc \in LoopPcs /\ ~isAnalysisRunning) =>
            \/ run'[r].pc \in LoopPcs /\ run'[r].i = run[r].i
            \/ run'[r].pc \in {"cancelled", "generateAnalytics"} /\ run'[r].i = run[r].i + 1
     /\ (hist'.calls = 1 /\ hist.stopAt.seen /\ Len(responses') > Len(responses)) =>
          /\ hist.stopAt.inLoop
          /\ responses'[Len(responses')].pos = hist.stopAt.i + 1
          /\ Cardinality({k \in 1..Len(responses') : responses'[k].run = 1})
               = hist.stopAt.completed + 1]_vars

\* stopCurrentAnalysis was called while the first of two prompts of the
\* only run was in flight; the run persisted the Response of that prompt
\* and stopped at the top of the second iteration
C26_Witness ==
  /\ hist.calls = 1
  /\ hist.stopAt.seen /\ hist.stopAt.inLoop /\ hist.stopAt.i = 0
  /\ run[1].pc = "cancelled"
  /\ run[1].i = 1
  /\ Len(run[1].allPrompts) = 2
  /\ \E k \in 1..Len(responses) : responses[k].run = 1 /\ responses[k].pos = 1

\* the accepted call r cannot go on because the model's bound on the
\* prompts of a behaviour is used up
BlockedByBound(r) ==
  \/ run[r].pc = "getPrompts" /\ work + Len(prompts) > MaxWork
  \/ run[r].pc = "generatePrompts" /\ work + 1 > MaxWork

\* C27: provided storage calls return, every accepted run eventually ends,
\* and the step that ends it publishes status complete or error and clears
\* the running flag, even when adapter calls never answer.
C27_EveryRunEnds ==
  /\ [][\A r \in Runs :
          (run[r].pc \notin EndPcs /\ run'[r].pc \in EndPcs) =>
            /\ currentProgress'.status \in {"complete", "error"}
            /\ ~isAnalysisRunning']_vars
  /\ \A r \in Runs :
       (run[r].pc = "resetDelay") ~> (run[r].pc \in EndPcs \/ BlockedByBound(r))

\* C28: when the competitor has no stored category and the categorization
\* call fails or runs into its timeout, categorizeCompetitor returns the
\* category of the keyword heuristics over the name, and the generic
\* default only when no keyword matches.
C28_FailedCallFallsBackToKeywords ==
  (lib.fn = "categorize" /\ lib.stored = Null /\ lib.outcome \in {"error", "timeout"}) =>
     lib.value = MockCategorize(lib.text, Null)

\* the keyword w occurs in the name, whatever the letter case
NameHas(name, w) == includes(toLowerCase(name), w)

\* C29: in the keyword categorizer every keyword leads to the category of
\* its group: a name without stored category that contains a keyword of a
\* group, in any letter case, gets the category of that group.
C29_EveryKeywordGivesItsCategory ==
  (lib.fn = "mockCategorize" /\ lib.stored = Null) =>
     \A g \in 1..Len(KeywordGroups) : \A kw \in KeywordGroups[g].keywords :
        NameHas(lib.text, kw) => lib.value = KeywordGroups[g].category

\* the words of a name, whatever the letter case
NameWords(name) == {w \in Range(SplitWords(toLowerCase(name))) : w # <<>>}

\* the similarity of two names is below 70: they are not equal ignoring
\* the case (100), neither contains the other (90), and the overlap of
\* their word sets is below 70 percent
SimilarityBelowLimit(a, b) ==
  /\ toLowerCase(a) # toLowerCase(b)
  /\ ~includes(toLowerCase(a), toLowerCase(b))
  /\ ~includes(toLowerCase(b), toLowerCase(a))
  /\ Cardinality(NameWords(a) \cap NameWords(b)) * 100
       < 70 * Cardinality(NameWords(a) \cup NameWords(b))

\* C30: extractCompetitorsFromText returns at most 10 names, every kept
\* name has a similarity below 70 to every name kept before it (100 for
\* an exact match ignoring case, 90 for containment, otherwise the overlap
\* percentage of the word sets), and it returns the empty list without
\* raising when the adapter call fails or its output is no JSON array.
C30_AtMostTenDissimilarNames ==
  lib.fn = "extractCompetitors" =>
    /\ lib.pc = "returned"
    /\ Len(lib.result) <= 10
    /\ \A k \in 1..Len(lib.result) : \A j \in 1..(k - 1) :
         SimilarityBelowLimit(lib.result[k], lib.result[j])
    /\ lib.outcome # "array" => lib.result = <<>>

\* the markers that the path of a URL contains
PathMarkers(u) ==
  CASE u.path \in {"/docs", "/docs/start"} -> {"/docs"}
    [] u.path = "/api/v1" -> {"/api"}
    [] OTHER -> {}

\* the first URL whose path contains a marker, the first URL without one
FirstByPath(urls) ==
  IF \E k \in 1..Len(urls) : PathMarkers(urls[k]) # {}
  THEN urls[CHOOSE k \in 1..Len(urls) :
              /\ PathMarkers(urls[k]) # {}
              /\ \A j \in 1..(k - 1) : PathMarkers(urls[j]) = {}]
  ELSE urls[1]

\* C31: the representative URL of a Source that is created for a domain is
\* the first URL, in collection order, among the URLs of the prompt on that
\* domain whose path contains /docs, /api, /developer, /guide or /tutorial,
\* and the first URL collected for the domain when no path contains one.
C31_RepresentativeUrlByPath ==
  [][\A r \in Runs :
       (run[r].pc = "createSource" /\ run'[r].pc = "updateSource"
          /\ Len(sources') = Len(sources) + 1) =>
         sources'[Len(sources')].url = FirstByPath(CurrentDomain(r).urls)]_vars

\* C32: title and representative url of a Source are fixed at creation: a
\* later prompt that cites the domain, with whatever URLs, changes only
\* the citationCount of the Source; title, url and domain of every stored
\* Source stay as they are as long as the table is not cleared.
C32_TitleAndUrlFixedAtCreation ==
  [][/\ Len(sources') >= Len(sources) =>
          \A k \in 1..Len(sources) :
            /\ sources'[k].domain = sources[k].domain
            /\ sources'[k].url = sources[k].url
            /\ sources'[k].title = sources[k].title
     /\ \A r \in Runs :
          (run[r].pc = "updateSource" /\ run'[r] # run[r]) =>
            /\ Len(sources') = Len(sources)
            /\ \A k \in 1..Len(sources) :
                 sources'[k].citationCount =
                   sources[k].citationCount +
                     (IF sources[k].domain = CurrentDomain(r).domain THEN 1 ELSE 0)]_vars

\* a Source of a.io cited by two prompts, the later one with URLs whose
\* representative differs from the stored url
C32_Witness ==
  \E r \in Runs : \E k \in 1..Len(sources) :
    /\ run[r].pc \in {"createResponse", "getSource"}
    /\ run[r].urlsByDomain # <<>>
    /\ \E d \in 1..Len(run[r].urlsByDomain) :
         /\ d <= run[r].di
         /\ run[r].urlsByDomain[d].domain = sources[k].domain
         /\ PrimaryUrl(run[r].urlsByDomain[d].urls) # sources[k].url
         /\ run[r].cited # <<>> /\ run[r].cited[Len(run[r].cited)] = sources[k].domain
    /\ sources[k].citationCount >= 2

\* the Analytics record a step persists is the rollup of the tables as they
\* are stored at that step
RollupOfStored(data) ==
  LET mentioned == Cardinality({k \in 1..Len(responses) : responses[k].brandMentioned})
  IN /\ data.totalPrompts = Len(responses)
     /\ data.brandMentionRate =
          (IF Len(responses) = 0 THEN Frac(0, 1) ELSE Frac(100 * mentioned, Len(responses)))
     /\ IF competitors = <<>> THEN data.topCompetitor = Null
        ELSE \E k \in 1..Len(competitors) :
               /\ competitors[k].name = data.topCompetitor
               /\ \A j \in 1..Len(competitors) :
                    competitors[j].mentionCount <= competitors[k].mentionCount
     /\ data.totalSources = Len(sources)
     /\ data.totalDomains = Cardinality({sources[k].domain : k \in 1..Len(sources)})

\* C33: the Analytics record written at finalization has totalPrompts equal
\* to the number of stored Response records, brandMentionRate equal to 100 *
\* (Responses with brandMentioned) / (Responses) and 0 when there are none,
\* topCompetitor equal to the name of a Competitor of maximal mentionCount
\* (null when there is none), totalSources equal to the number of Source
\* records and totalDomains equal to the number of distinct Source domains.
C33_AnalyticsIsRollupOfStoredRecords ==
  [][Len(analytics') = Len(analytics) + 1 =>
       RollupOfStored(analytics'[Len(analytics')].data)]_vars

\* C34: with MemStorage as with DatabaseStorage, after createCompetitor
\* with mentionCount 0 and k calls updateCompetitorMentionCount(name, 1)
\* the mentionCount of the competitor is k, and after createSource with
\* citationCount 0 and k calls updateSourceCitationCount(domain, 1) the
\* citationCount of the source is k.
C34_BothStoragesCountUpdates ==
  (lib.fn = "storage" /\ lib.count = 0) => (~lib.row.isNull /\ lib.row.n = lib.calls)

\* C35: a cancellation is never lost to a restart. When stopCurrentAnalysis
\* was called while a run was processing a prompt, that run begins no
\* further prompt, whether or not runFullAnalysis is called again before
\* the run reaches its next cancellation check.
C35_CancelSurvivesRestart ==
  (hist.stopAt.seen /\ hist.stopAt.inLoop) =>
     ~(/\ run[hist.stopAt.run].pc \in LoopPcs
       /\ run[hist.stopAt.run].i > hist.stopAt.i)

\* the step ends an iteration of the loop of r and persists no Response
EndsWithoutResponse(r) ==
  /\ run[r].pc \in LoopPcs
  /\ run'[r] # run[r]
  /\ run'[r].pc \notin LoopPcs \/ run'[r].i = run[r].i + 1
  /\ ~(run[r].pc = "createResponse" /\ Len(responses') = Len(responses) + 1)

\* C36: per prompt, the aggregate updates and the Response are all or
\* nothing: when the processing of a prompt ends without a Response being
\* persisted for it, no Competitor and no Source was created and no
\* mentionCount and no citationCount was changed on behalf of that prompt.
C36_AggregatesOnlyWithResponse ==
  [][\A r \in Runs : EndsWithoutResponse(r) => ~run[r].touched]_vars

\* the step is a progress update of the loop of r: the update at the entry
\* of the loop or the update that ends an iteration, together with what
\* the top of the loop publishes right after it
LoopPublishes(r) ==
  \/ run'[r].i = run[r].i + 1
  \/ /\ run[r].pc \in {"getPrompts", "clearCompetitors", "generatePrompts"}
     /\ run'[r].pc \in {"createPrompt", "cancelled", "generateAnalytics"}

\* C37: at every progress update made by the per-prompt loop,
\* completedPrompts equals the number of Response records the run has
\* persisted so far and totalPrompts the length of the assembled prompt
\* list; the record is also what the progress callback receives.
C37_LoopCountsArePersistedResponses ==
  [][\A r \in Runs : LoopPublishes(r) =>
       /\ currentProgress'.completedPrompts =
            Cardinality({k \in 1..Len(responses') : responses'[k].run = r})
       /\ currentProgress'.totalPrompts = Len(run'[r].allPrompts)
       /\ pushed' = <<currentProgress'>>]_vars

\* createResponse raised for the first of two prompts and the second was
\* persisted: the update after the second iteration says 1 of 2
C37_Witness ==
  \E r \in Runs :
    /\ run[r].i = 2 /\ run[r].skipped = 1 /\ run[r].completedCount = 1
    /\ run[r].pc = "generateAnalytics"
    /\ ResponsesBy(r) = 1
    /\ currentProgress.completedPrompts = 1
    /\ currentProgress.totalPrompts = 2

FracLeq(a, b) == a[1] * b[2] <= b[1] * a[2]

\* C38: within one run that receives no cancel request and meets no
\* run-fatal error, the published progress values start at 0, never
\* decrease and end at 100, whichever prompt sourcing branch is taken and
\* however many prompts fail.
C38_ProgressRisesFromZeroToHundred ==
  [][\A r \in Runs :
       (run'[r] # run[r] /\ ~hist'.stopAt.seen /\ run'[r].pc # "failed") =>
         /\ pushed' = <<currentProgress'>>
         /\ run[r].pc = "idle" => FracEq(currentProgress'.progress, Frac(0, 1))
         /\ run[r].pc # "idle" => FracLeq(currentProgress.progress, currentProgress'.progress)
         /\ run'[r].pc \in EndPcs => FracEq(currentProgress'.progress, Frac(100, 1))]_vars

\* C39: a cancel request made while no run is active does not affect later
\* runs. After such a request the next call of runFullAnalysis is accepted,
\* and the run it starts is not stopped: it goes through all its prompts and
\* reaches status complete.
C39_IdleCancelLeavesLaterRunsAlone ==
  /\ [](StoppedWhileIdle => ~isAnalysisRunning)
  /\ [][\A r \in Runs :
          (run[r].pc # "complete" /\ run'[r].pc = "complete") =>
            /\ run'[r].i = Len(run'[r].allPrompts)
            /\ currentProgress'.status = "complete"]_vars
  /\ \A r \in Runs :
       (run[r].pc = "resetDelay") ~> (run[r].pc = "complete" \/ BlockedByBound(r))
====
